---- MODULE Spec2Model ----
(***************************************************************************)
(* Activity tracker: batch sessionizer, session scorers, the real-time     *)
(* SessionState machine, the RealTimeSessionGrouper and the activity /     *)
(* session tables they share.                                              *)
(*                                                                         *)
(* The SessionState producers deliver one activity per time unit.  The    *)
(* logger, the grouper and the gap-range finder count seconds.  The batch  *)
(* thresholds are parameters of batch_sessionize, drawn from small sets.   *)
(***************************************************************************)
EXTENDS Integers, Sequences, FiniteSets, TLC

VARIABLES
    batch,              \* one call of batch_sessionize: its arguments and its result
    scoring,            \* one call of a session-scoring function: argument and result
    feed,               \* the producer of the SessionState machine's activities
    state,              \* the SessionState object
    activity_sessions,  \* table activity_sessions (ActivitySession rows)
    session_origin,     \* per persisted session: who saved it, with which members
    raised,             \* the exception the last handler call ended with, or "none"
    activity_logs,      \* table activity_logs (ActivityLog rows)
    logger,             \* the logger thread: when the watched window got the focus, and its clock
    grouper,            \* the RealTimeSessionGrouper object of the logger thread
    rescored,           \* id of the activity a later update_activity_scores call rescored, or None
    flow,               \* one call of a flow-analysis or classifier function: input, function, result
    commentary,         \* one call of generate_transition_commentary: arguments, result
    call                \* one call of a decision or typing function: function, arguments, result

pureVars == <<batch, scoring>>
stateVars == <<feed, state>>
dbVars == <<activity_sessions, session_origin>>
storeVars == <<activity_logs, logger, grouper, rescored>>
analysisVars == <<flow, commentary, call>>
vars == <<batch, scoring, feed, state, activity_sessions, session_origin, raised,
          activity_logs, logger, grouper, rescored, flow, commentary,
          call>>

(***************************************************************************)
(* Bounds of the model.                                                    *)
(***************************************************************************)
MaxActs == 3        \* activities handed to batch_sessionize
MaxScored == 3      \* activities handed to a scoring function
MaxSamples == 26    \* activities fed to SessionState by a steady producer
MaxOutliers == 2    \* samples of a steady producer that leave its base score
MaxHystSamples == 260   \* activities fed by a constant or alternating producer
MaxLogged == 3      \* activities the logger thread logs
MaxIdlePolls == 50  \* turns of the logger loop in a final stretch of inactivity
MaxFlowActs == 3     \* activities handed to a flow-analysis function
MaxCycleSamples == 60  \* activities of a cycle producer
MaxCommented == 2    \* activities of each session handed to the commentator

StartTimes == {0, 1, 3}
Durations == 0 .. 2
\* <<gap_threshold_sec, micro_break_threshold_sec>> of a batch_sessionize call
BatchThresholds == {<<1, 1>>, <<2, 0>>}

(***************************************************************************)
(* Python values.                                                          *)
(***************************************************************************)
None == 999999        \* Optional[int] without a value; never used in arithmetic

Range(s) == {s[i] : i \in 1 .. Len(s)}

RECURSIVE SumSeq(_)
SumSeq(s) == IF s = <<>> THEN 0 ELSE s[1] + SumSeq(Tail(s))

MinOf(S) == CHOOSE x \in S : \A y \in S : x <= y
MaxOf(S) == CHOOSE x \in S : \A y \in S : y <= x

\* The value a Python call gives back: a return value or a raised exception.
Return(v) == [raised |-> "none", value |-> v]
Raise(e) == [raised |-> e, value |-> 0]

\* Python 3 round() of the quotient n / d, d > 0: to nearest, ties to even.
round(n, d) ==
    LET q == n \div d
        r == n % d
    IN  IF 2 * r < d THEN q
        ELSE IF 2 * r > d THEN q + 1
        ELSE IF q % 2 = 0 THEN q ELSE q + 1

(***************************************************************************)
(* ActivityLogStub / ActivityLog.                                          *)
(***************************************************************************)
BatchScores == {None, -20, 20}
ScoreValues == {None, -50, -7, 0, 30}

ActivityLogStub(i, t, d, s) ==
    [id |-> i, timestamp_start |-> t, duration_sec |-> d, productivity_score |-> s]

end_time(a) == a.timestamp_start + a.duration_sec

classify_type(prod_score) ==
    IF prod_score = None THEN "neutral"
    ELSE IF prod_score >= 20 THEN "productive"
    ELSE IF prod_score =< -20 THEN "unproductive"
    ELSE "neutral"

(***************************************************************************)
(* batch_sessionize.                                                       *)
(***************************************************************************)
\* sorted(activities, key=timestamp_start): stable.
InsertByStart(a, s) ==
    LET k == Cardinality({i \in 1 .. Len(s) : s[i].timestamp_start =< a.timestamp_start})
    IN  SubSeq(s, 1, k) \o <<a>> \o SubSeq(s, k + 1, Len(s))

RECURSIVE sorted(_)
sorted(s) ==
    IF s = <<>> THEN <<>>
    ELSE InsertByStart(s[Len(s)], sorted(SubSeq(s, 1, Len(s) - 1)))

\* "if buffer: sessions.append(buffer)" after the loop.
FlushBuffer_dropped(sessions, buffer) == sessions

FlushBuffer(sessions, buffer) ==
    IF buffer # <<>> THEN Append(sessions, buffer) ELSE sessions

\* The loop body without the split on a change of type.
SessionizeStep_type_ignored(sessions, buffer, curr, gap_threshold_sec, micro_break_threshold_sec) ==
    LET prev == buffer[Len(buffer)]
        gap == curr.timestamp_start - end_time(prev)
    IN  IF gap > gap_threshold_sec
        THEN [sessions |-> Append(sessions, buffer), buffer |-> <<curr>>]
        ELSE [sessions |-> sessions, buffer |-> Append(buffer, curr)]

\* The loop body without the second absorption test (short previous activity).
SessionizeStep_no_symmetric_blip(sessions, buffer, curr, gap_threshold_sec, micro_break_threshold_sec) ==
    LET prev == buffer[Len(buffer)]
        gap == curr.timestamp_start - end_time(prev)
        prev_type == classify_type(prev.productivity_score)
        curr_type == classify_type(curr.productivity_score)
        first_type == classify_type(buffer[1].productivity_score)
    IN  IF gap > gap_threshold_sec
        THEN [sessions |-> Append(sessions, buffer), buffer |-> <<curr>>]
        ELSE IF prev_type # curr_type
        THEN IF curr.duration_sec =< micro_break_threshold_sec /\ prev_type = first_type
             THEN [sessions |-> sessions, buffer |-> Append(buffer, curr)]
             ELSE [sessions |-> Append(sessions, buffer), buffer |-> <<curr>>]
        ELSE [sessions |-> sessions, buffer |-> Append(buffer, curr)]

\* One iteration of the for loop: the (sessions, buffer) pair after activity curr.
\* The loop body without "if gap > gap_threshold_sec: ...; continue".
SessionizeStep_gap_ignored(sessions, buffer, curr, gap_threshold_sec, micro_break_threshold_sec) ==
    LET prev == buffer[Len(buffer)]
        prev_type == classify_type(prev.productivity_score)
        curr_type == classify_type(curr.productivity_score)
        first_type == classify_type(buffer[1].productivity_score)
    IN  IF prev_type # curr_type
        THEN IF curr.duration_sec =< micro_break_threshold_sec /\ prev_type = first_type
             THEN [sessions |-> sessions, buffer |-> Append(buffer, curr)]
             ELSE IF prev.duration_sec =< micro_break_threshold_sec /\ curr_type = first_type
             THEN [sessions |-> sessions, buffer |-> Append(buffer, curr)]
             ELSE [sessions |-> Append(sessions, buffer), buffer |-> <<curr>>]
        ELSE [sessions |-> sessions, buffer |-> Append(buffer, curr)]

\* The loop body without the first absorption test (short current activity).
SessionizeStep_no_blip(sessions, buffer, curr, gap_threshold_sec, micro_break_threshold_sec) ==
    LET prev == buffer[Len(buffer)]
        gap == curr.timestamp_start - end_time(prev)
        prev_type == classify_type(prev.productivity_score)
        curr_type == classify_type(curr.productivity_score)
        first_type == classify_type(buffer[1].productivity_score)
    IN  IF gap > gap_threshold_sec
        THEN [sessions |-> Append(sessions, buffer), buffer |-> <<curr>>]
        ELSE IF prev_type # curr_type
        THEN IF prev.duration_sec =< micro_break_threshold_sec /\ curr_type = first_type
             THEN [sessions |-> sessions, buffer |-> Append(buffer, curr)]
             ELSE [sessions |-> Append(sessions, buffer), buffer |-> <<curr>>]
        ELSE [sessions |-> sessions, buffer |-> Append(buffer, curr)]

SessionizeStep(sessions, buffer, curr, gap_threshold_sec, micro_break_threshold_sec) ==
    LET prev == buffer[Len(buffer)]
        gap == curr.timestamp_start - end_time(prev)
        prev_type == classify_type(prev.productivity_score)
        curr_type == classify_type(curr.productivity_score)
        first_type == classify_type(buffer[1].productivity_score)
    IN  IF gap > gap_threshold_sec
        THEN [sessions |-> Append(sessions, buffer), buffer |-> <<curr>>]
        ELSE IF prev_type # curr_type
        THEN IF curr.duration_sec =< micro_break_threshold_sec /\ prev_type = first_type
             THEN [sessions |-> sessions, buffer |-> Append(buffer, curr)]
             ELSE IF prev.duration_sec =< micro_break_threshold_sec /\ curr_type = first_type
             THEN [sessions |-> sessions, buffer |-> Append(buffer, curr)]
             ELSE [sessions |-> Append(sessions, buffer), buffer |-> <<curr>>]
        ELSE [sessions |-> sessions, buffer |-> Append(buffer, curr)]

RECURSIVE SessionizeLoop(_, _, _, _, _, _)
SessionizeLoop(acts, i, sessions, buffer, gap_threshold_sec, micro_break_threshold_sec) ==
    IF i > Len(acts) THEN FlushBuffer(sessions, buffer)
    ELSE LET st == SessionizeStep(sessions, buffer, acts[i],
                                  gap_threshold_sec, micro_break_threshold_sec)
         IN  SessionizeLoop(acts, i + 1, st.sessions, st.buffer,
                            gap_threshold_sec, micro_break_threshold_sec)

batch_sessionize(activities, gap_threshold_sec, micro_break_threshold_sec) ==
    IF activities = <<>> THEN <<>>
    ELSE LET acts == sorted(activities)
         IN  SessionizeLoop(acts, 2, <<>>, <<acts[1]>>,
                            gap_threshold_sec, micro_break_threshold_sec)

(***************************************************************************)
(* Session scoring functions.                                              *)
(***************************************************************************)
Durs(session) == [i \in 1 .. Len(session) |-> session[i].duration_sec]

\* (a.productivity_score or 0) * a.duration_sec
WeightedOr0(session) ==
    [i \in 1 .. Len(session) |->
        (IF session[i].productivity_score = None THEN 0
         ELSE session[i].productivity_score) * session[i].duration_sec]

HasNone(session) == \E i \in 1 .. Len(session) : session[i].productivity_score = None

\* batch_sessionizer.calculate_weighted_score
calculate_weighted_score_unweighted(session) ==
    LET total == SumSeq(Durs(session))
    IN  IF total = 0 THEN Return(0)
        ELSE Return(SumSeq(WeightedOr0(session)))

calculate_weighted_score(session) ==
    LET total == SumSeq(Durs(session))
    IN  IF total = 0 THEN Return(0)
        ELSE Return(round(SumSeq(WeightedOr0(session)), total))

\* flow_analysis.weighted_score
weighted_score(session) ==
    LET total == SumSeq(Durs(session))
    IN  IF total = 0 THEN Return(0)
        ELSE Return(round(SumSeq(WeightedOr0(session)), total))

\* RealTimeSessionGrouper.calculate_session_score
calculate_session_score(activities) ==
    IF activities = <<>> THEN Return(0)
    ELSE LET total_weighted_score == SumSeq(WeightedOr0(activities))
             total_duration == SumSeq(Durs(activities))
         IN  IF total_duration = 0 THEN Return(0)
             ELSE Return(round(total_weighted_score, total_duration))

\* The score expression of SessionState._end_session:
\* round(sum(a.productivity_score * a.duration_sec for a in acts) / total_dur).
\* The sum is evaluated first (None * int raises TypeError), then the division.
end_session_score(acts) ==
    LET total_dur == SumSeq(Durs(acts))
    IN  IF HasNone(acts) THEN Raise("TypeError")
        ELSE IF total_dur = 0 THEN Raise("ZeroDivisionError")
        ELSE Return(round(SumSeq(WeightedOr0(acts)), total_dur))

\* save_session.calculate_session_score: both guards are commented out.
save_session_calculate_session_score(activities) ==
    LET total_duration == SumSeq(Durs(activities))
    IN  IF HasNone(activities) THEN Raise("TypeError")
        ELSE IF total_duration = 0 THEN Raise("ZeroDivisionError")
        ELSE Return(round(SumSeq(WeightedOr0(activities)), total_duration))

\* PatternRecognizer.calculate_session_productivity_score: the loop skips the
\* members without a score, their duration included.
calculate_session_productivity_score(activities) ==
    IF activities = <<>> THEN Return(0)
    ELSE LET Scored(a) == a.productivity_score # None
             scored == SelectSeq(activities, Scored)
             total_weighted_score == SumSeq(WeightedOr0(scored))
             total_duration == SumSeq(Durs(scored))
         IN  IF total_duration = 0 THEN Return(0)
             ELSE Return(round(total_weighted_score, total_duration))

ScoringFunctions ==
    {"calculate_weighted_score", "weighted_score", "calculate_session_score",
     "end_session_score", "save_session_calculate_session_score",
     "calculate_session_productivity_score"}

ApplyScoring(f, session) ==
    CASE f = "calculate_weighted_score" -> calculate_weighted_score(session)
      [] f = "weighted_score" -> weighted_score(session)
      [] f = "calculate_session_score" -> calculate_session_score(session)
      [] f = "end_session_score" -> end_session_score(session)
      [] f = "save_session_calculate_session_score" ->
            save_session_calculate_session_score(session)
      [] f = "calculate_session_productivity_score" ->
            calculate_session_productivity_score(session)

(***************************************************************************)
(* Table activity_sessions.                                                *)
(***************************************************************************)
ActivitySession(i, name, score, start, end, total, confirmed) ==
    [id |-> i, session_name |-> name, productivity_score |-> score,
     start_time |-> start, end_time |-> end, total_duration_sec |-> total,
     user_confirmed |-> confirmed]

\* operations.save_activity_session: the table with the new row appended.
save_activity_session(table, name, score, start, end, total, confirmed) ==
    Append(table, ActivitySession(Len(table) + 1, name, score, start, end, total, confirmed))

Ids(acts) == [i \in 1 .. Len(acts) |-> acts[i].id]

InitDb ==
    /\ activity_sessions = <<>>
    /\ session_origin = <<>>
    /\ raised = "none"

(***************************************************************************)
(* SessionState.  ema_score is a float in the code; here it is a fixed-    *)
(* point number with EmaScale units per score point, rounded to nearest    *)
(* at each update.  The producers below feed only score streams on which   *)
(* every comparison of the float against a threshold has the same outcome  *)
(* as the fixed-point one.                                                 *)
(***************************************************************************)
HARD_BREAK_MIN == 10
HARD_WORK_MIN == 15
EMA_ALPHA_TENTHS == 3       \* EMA_ALPHA = 0.3
BUFFER_SIZE == 240
STATIC_MIN_SAMPLES == 10    \* len(buf) < 10: static thresholds
EmaScale == 10 * 10 * 10

NoSession == [activities |-> <<>>, start_time |-> 0]
NoMeta == [dominant_type |-> "None", start_time |-> 0, duration |-> 0, session_type |-> "None"]

SessionState__init__ ==
    [current_session |-> NoSession, current_context |-> "None",
     context_start_time |-> None, ema_score |-> None,
     break_counter |-> 0, work_counter |-> 0, score_buffer |-> <<>>,
     prev_session_meta |-> NoMeta, prev_activities |-> <<>>]

_update_ema(ema_score, score) ==
    IF ema_score = None THEN score * EmaScale
    ELSE (EMA_ALPHA_TENTHS * score * EmaScale + (10 - EMA_ALPHA_TENTHS) * ema_score + 5) \div 10

\* deque(maxlen=BUFFER_SIZE).append
_update_buffer(score_buffer, score) ==
    IF Len(score_buffer) >= BUFFER_SIZE THEN Append(Tail(score_buffer), score)
    ELSE Append(score_buffer, score)

\* sorted(buf)[i], i counted from 0
SortedAt(buf, i) ==
    CHOOSE v \in Range(buf) :
        /\ Cardinality({j \in 1 .. Len(buf) : buf[j] < v}) =< i
        /\ Cardinality({j \in 1 .. Len(buf) : buf[j] =< v}) > i

\* <<work_threshold, break_threshold>>, in EmaScale units
_compute_dynamic_thresholds_static(buf) == <<20 * EmaScale, 0>>

_compute_dynamic_thresholds(buf) ==
    IF Len(buf) < STATIC_MIN_SAMPLES THEN <<20 * EmaScale, 0>>
    ELSE LET i75 == (3 * (Len(buf) - 1)) \div 4
             i25 == (Len(buf) - 1) \div 4
         IN  <<SortedAt(buf, i75) * EmaScale, SortedAt(buf, i25) * EmaScale>>

\* Step 3 without "self.work_counter = 0" / "self.break_counter = 0".
update_counters_without_reset(st, work_thresh, break_thresh) ==
    IF st.ema_score < break_thresh
    THEN [st EXCEPT !.break_counter = @ + 1]
    ELSE IF st.ema_score > work_thresh
    THEN [st EXCEPT !.work_counter = @ + 1]
    ELSE [st EXCEPT !.break_counter = IF @ - 1 > 0 THEN @ - 1 ELSE 0,
                    !.work_counter = IF @ - 1 > 0 THEN @ - 1 ELSE 0]

\* Step 3 of process_minute: the counters after one sample.
update_counters_no_decay(st, work_thresh, break_thresh) ==
    IF st.ema_score < break_thresh
    THEN [st EXCEPT !.break_counter = @ + 1, !.work_counter = 0]
    ELSE [st EXCEPT !.work_counter = @ + 1, !.break_counter = 0]

update_counters(st, work_thresh, break_thresh) ==
    IF st.ema_score < break_thresh
    THEN [st EXCEPT !.break_counter = @ + 1, !.work_counter = 0]
    ELSE IF st.ema_score > work_thresh
    THEN [st EXCEPT !.work_counter = @ + 1, !.break_counter = 0]
    ELSE [st EXCEPT !.break_counter = IF @ - 1 > 0 THEN @ - 1 ELSE 0,
                    !.work_counter = IF @ - 1 > 0 THEN @ - 1 ELSE 0]

\* The outcome of a handler: the object, the table, the ghost record of the
\* sessions saved, and the exception that escaped.
Outcome(st, table, origin, exc) ==
    [state |-> st, sessions |-> table, origin |-> origin, raised |-> exc]

_start_session(st, activity, start_time) ==
    LET stashed ==
            IF st.current_session # NoSession
            THEN [st EXCEPT
                    !.prev_session_meta =
                        [dominant_type |-> st.current_context,
                         start_time |-> st.current_session.start_time,
                         duration |-> SumSeq(Durs(st.current_session.activities)),
                         session_type |-> st.current_context],
                    !.prev_activities = st.current_session.activities]
            ELSE [st EXCEPT !.prev_session_meta = NoMeta, !.prev_activities = <<>>]
    IN  [stashed EXCEPT
            !.current_session = [activities |-> <<activity>>, start_time |-> start_time],
            !.current_context = "productive",
            !.context_start_time = start_time]

_end_session_keeping_ema(st, table, origin, end) ==
    LET acts == st.current_session.activities
        start == st.current_session.start_time
        total_dur == SumSeq(Durs(acts))
        score == end_session_score(acts)
    IN  IF score.raised # "none" THEN Outcome(st, table, origin, score.raised)
        ELSE Outcome(
                [st EXCEPT !.current_session = NoSession,
                           !.current_context = "None",
                           !.context_start_time = None,
                           !.break_counter = 0,
                           !.work_counter = 0],
                save_activity_session(table, "(AI will name later)", score.value,
                                      start, end, total_dur, FALSE),
                Append(origin, [by |-> "SessionState", members |-> acts]),
                "none")

_end_session(st, table, origin, end) ==
    LET acts == st.current_session.activities
        start == st.current_session.start_time
        total_dur == SumSeq(Durs(acts))
        score == end_session_score(acts)
    IN  IF score.raised # "none" THEN Outcome(st, table, origin, score.raised)
        ELSE Outcome(
                [st EXCEPT !.current_session = NoSession,
                           !.current_context = "None",
                           !.context_start_time = None,
                           !.break_counter = 0,
                           !.work_counter = 0,
                           !.ema_score = None,
                           !.score_buffer = <<>>],
                save_activity_session(table, "(AI will name later)", score.value,
                                      start, end, total_dur, FALSE),
                Append(origin, [by |-> "SessionState", members |-> acts]),
                "none")

process_minute(st, table, origin, activity, score) ==
    LET now == activity.timestamp_start
        raw_score == IF score = None THEN 0 ELSE score
        st1 == [st EXCEPT !.ema_score = _update_ema(@, raw_score),
                          !.score_buffer = _update_buffer(@, raw_score)]
        th == _compute_dynamic_thresholds(st1.score_buffer)
        st2 == update_counters(st1, th[1], th[2])
    IN  IF st2.current_session # NoSession /\ st2.break_counter >= HARD_BREAK_MIN
        THEN _end_session(st2, table, origin, now)
        ELSE IF st2.current_session = NoSession /\ st2.work_counter >= HARD_WORK_MIN
        THEN Outcome(_start_session(st2, activity, now), table, origin, "none")
        ELSE Outcome(st2, table, origin, "none")

\* add_activity appending the activity after process_minute instead of before.
add_activity_appending_after(st, table, origin, activity) ==
    LET out == process_minute(st, table, origin, activity, activity.productivity_score)
    IN  IF out.state.current_session # NoSession
        THEN [out EXCEPT !.state.current_session.activities = Append(@, activity)]
        ELSE out

add_activity(st, table, origin, activity) ==
    LET st1 == IF st.current_session # NoSession
               THEN [st EXCEPT !.current_session.activities = Append(@, activity)]
               ELSE st
    IN  process_minute(st1, table, origin, activity, activity.productivity_score)

(***************************************************************************)
(* Table activity_logs and the logger thread.  Times of this part are in   *)
(* seconds; every timestamp of a run lies within one calendar day.         *)
(***************************************************************************)
\* An ActivityLog row as add_activity_log inserts it: no score, no session.
ActivityLog(i, t, details, d) ==
    [id |-> i, session_id |-> None, timestamp_start |-> t, details |-> details,
     duration_sec |-> d, productivity_score |-> None]

add_activity_log(logs, timestamp_start, details, duration_sec) ==
    Append(logs, ActivityLog(Len(logs) + 1, timestamp_start, details, duration_sec))

\* Window titles the logger sees, and the productivity_score the classifier
\* (llm_client.chat, temperature 0) answers for each.
Details == {"vscode", "youtube", "gmail"}

chat(details) ==
    CASE details = "vscode" -> 45
      [] details = "youtube" -> -30
      [] OTHER -> 5

\* FlowAwareAnalyzer.classify_activity_type: the activity with the score the
\* classifier stored in it, and the category of that score.
Classified(activity) == [activity EXCEPT !.productivity_score = chat(activity.details)]

classify_activity_type(activity) ==
    LET productivity_score == chat(activity.details)
    IN  IF productivity_score >= 15 THEN "productive"
        ELSE IF productivity_score =< -15 THEN "unproductive"
        ELSE "neutral"

(***************************************************************************)
(* The two classifiers, with an oracle that may fail.  oracle is "ok" when *)
(* load_user_config, chat and the parsing of the answer all succeed, and   *)
(* "fails" when one of them raises.                                        *)
(***************************************************************************)
Oracles == {"ok", "fails"}

\* "Convert numerical score to categorical": the bands of both classifiers.
ScoreCategory(productivity_score) ==
    IF productivity_score >= 15 THEN "productive"
    ELSE IF productivity_score =< -15 THEN "unproductive"
    ELSE "neutral"

\* hasattr(activity, "user_confirmed") and activity.user_confirmed, after
\* hasattr(activity, "productivity_score") and it is not None.
HasConfirmedScore(activity) ==
    /\ "productivity_score" \in DOMAIN activity
    /\ activity.productivity_score # None
    /\ "user_confirmed" \in DOMAIN activity
    /\ activity.user_confirmed

\* The keyword fallback of FlowAwareAnalyzer on the details of the model.
KeywordCategory(details) ==
    CASE details = "vscode" -> "productive"
      [] details = "youtube" -> "unproductive"
      [] OTHER -> "neutral"

\* What a classify_activity_type call leaves behind: the exception or the
\* category, the activity object, and whether the oracle was called.
ClassifyOutcome(exc, category, activity, called) ==
    [raised |-> exc, value |-> category, activity |-> activity, oracle_called |-> called]

\* The try block of both classifiers when the oracle answers.
ClassifyByOracle(activity) ==
    LET productivity_score == chat(activity.details)
        stored == IF "productivity_score" \in DOMAIN activity
                  THEN [activity EXCEPT !.productivity_score = productivity_score]
                  ELSE activity
    IN  ClassifyOutcome("none", ScoreCategory(productivity_score), stored, TRUE)

FlowAwareAnalyzer_classify_activity_type(activity, oracle) ==
    IF HasConfirmedScore(activity)
    THEN ClassifyOutcome("none", ScoreCategory(activity.productivity_score), activity, FALSE)
    ELSE IF oracle = "ok" THEN ClassifyByOracle(activity)
    ELSE ClassifyOutcome("none", KeywordCategory(activity.details), activity, TRUE)

\* ActivityClassifier._fallback_classification reads self.productivity_keywords,
\* which ActivityClassifier.__init__ never sets.
_fallback_classification(activity) ==
    ClassifyOutcome("AttributeError", "none", activity, TRUE)

ActivityClassifier_classify_activity_type(activity, oracle) ==
    IF HasConfirmedScore(activity)
    THEN ClassifyOutcome("none", ScoreCategory(activity.productivity_score), activity, FALSE)
    ELSE IF oracle = "ok" THEN ClassifyByOracle(activity)
    ELSE _fallback_classification(activity)

(***************************************************************************)
(* Flow analysis: FlowAwareAnalyzer (flow_analysis.py) and FlowAnalyzer    *)
(* (flow_analyzer.py, on top of ActivityClassifier).                       *)
(***************************************************************************)
noise_threshold_seconds == 120
secs4flow == 900
dominance_ratio == <<3, 4>>     \* 0.75

\* filter_noise_activities: the meaningful activities, in order.
FlowAwareAnalyzer_meaningful(activities) ==
    SelectSeq(activities, LAMBDA a : a.duration_sec >= noise_threshold_seconds)

FlowAnalyzer_meaningful(activities) ==
    SelectSeq(activities, LAMBDA a : a.duration_sec >= secs4flow)

\* The loop of filter_noise_activities: <<meaningful, noise>>, each in the
\* order of the appends.
RECURSIVE filter_noise_loop_strict(_, _, _, _)
filter_noise_loop_strict(activities, threshold, meaningful, noise) ==
    IF activities = <<>> THEN <<meaningful, noise>>
    ELSE IF activities[1].duration_sec > threshold
    THEN filter_noise_loop_strict(Tail(activities), threshold,
                                  Append(meaningful, activities[1]), noise)
    ELSE filter_noise_loop_strict(Tail(activities), threshold,
                                  meaningful, Append(noise, activities[1]))

RECURSIVE filter_noise_loop(_, _, _, _)
filter_noise_loop(activities, threshold, meaningful, noise) ==
    IF activities = <<>> THEN <<meaningful, noise>>
    ELSE IF activities[1].duration_sec >= threshold
    THEN filter_noise_loop(Tail(activities), threshold,
                           Append(meaningful, activities[1]), noise)
    ELSE filter_noise_loop(Tail(activities), threshold,
                           meaningful, Append(noise, activities[1]))

\* filter_noise_activities: the two lists returned and the caller's list
\* after the call (the loop only reads it).
FlowAwareAnalyzer_filter_noise_activities(activities) ==
    LET lists == filter_noise_loop(activities, noise_threshold_seconds, <<>>, <<>>)
    IN  [meaningful |-> lists[1], noise |-> lists[2], activities |-> activities]

FlowAnalyzer_filter_noise_activities(activities) ==
    LET lists == filter_noise_loop(activities, secs4flow, <<>>, <<>>)
    IN  [meaningful |-> lists[1], noise |-> lists[2], activities |-> activities]

TimeOf(activities) == SumSeq(Durs(activities))

\* round(x, 3) of the ratio n / d as thousandths; 0 when d is 0.
Ratio3(n, d) == IF d > 0 THEN round(1000 * n, d) ELSE 0

\* The if / elif chain on the ratios x / meaningful_time (all 0 when there is
\* no meaningful time, and 0 >= 0.75 is false).
dominance_type(productive_time, unproductive_time, meaningful_time) ==
    IF meaningful_time > 0
          /\ dominance_ratio[2] * productive_time >= dominance_ratio[1] * meaningful_time
    THEN "productive"
    ELSE IF meaningful_time > 0
          /\ dominance_ratio[2] * unproductive_time >= dominance_ratio[1] * meaningful_time
    THEN "unproductive"
    ELSE IF productive_time > unproductive_time THEN "mostly_productive"
    ELSE IF unproductive_time > productive_time THEN "mostly_unproductive"
    ELSE "mixed"

\* The stats dict; ratios in thousandths.
dominance_stats(activities, meaningful, productive_time, unproductive_time, neutral_time) ==
    LET total_time == TimeOf(activities)
        meaningful_time == TimeOf(meaningful)
    IN  [total_time_sec |-> total_time,
         meaningful_time_sec |-> meaningful_time,
         noise_time_sec |-> total_time - meaningful_time,
         productive_time_sec |-> productive_time,
         unproductive_time_sec |-> unproductive_time,
         neutral_time_sec |-> neutral_time,
         productive_ratio |-> Ratio3(productive_time, meaningful_time),
         unproductive_ratio |-> Ratio3(unproductive_time, meaningful_time),
         neutral_ratio |-> Ratio3(neutral_time, meaningful_time),
         noise_ratio |-> Ratio3(total_time - meaningful_time, total_time),
         meaningful_activity_count |-> Len(meaningful),
         noise_activity_count |-> Len(activities) - Len(meaningful)]

\* FlowAwareAnalyzer.calculate_session_type_with_dominance: the activities
\* are typed by classify_activity_type.
FlowAwareAnalyzer_calculate_session_type_with_dominance(activities, oracle) ==
    IF activities = <<>> THEN Return([session_type |-> "neutral", stats |-> <<>>])
    ELSE
    LET meaningful == FlowAwareAnalyzer_meaningful(activities)
        TimeOfType(type) ==
            TimeOf(SelectSeq(meaningful, LAMBDA a :
                FlowAwareAnalyzer_classify_activity_type(a, oracle).value = type))
        productive_time == TimeOfType("productive")
        unproductive_time == TimeOfType("unproductive")
        neutral_time == TimeOfType("neutral")
    IN  Return([session_type |->
                    dominance_type(productive_time, unproductive_time, TimeOf(meaningful)),
                stats |-> dominance_stats(activities, meaningful, productive_time,
                                          unproductive_time, neutral_time)])

\* FlowAnalyzer.calculate_session_type_with_dominance: the activities are
\* typed by the sign of productivity_score; None > 0 is a TypeError.
FlowAnalyzer_calculate_session_type_with_dominance(activities) ==
    IF activities = <<>> THEN Return([session_type |-> "neutral", stats |-> <<>>])
    ELSE
    LET meaningful == FlowAnalyzer_meaningful(activities)
        scored == SelectSeq(meaningful, LAMBDA a : a.productivity_score # None)
        productive_time == TimeOf(SelectSeq(scored, LAMBDA a : a.productivity_score > 0))
        unproductive_time == TimeOf(SelectSeq(scored, LAMBDA a : a.productivity_score < 0))
        neutral_time == TimeOf(SelectSeq(scored, LAMBDA a : a.productivity_score = 0))
    IN  IF HasNone(meaningful) THEN Raise("TypeError")
        ELSE Return([session_type |->
                        dominance_type(productive_time, unproductive_time, TimeOf(meaningful)),
                     stats |-> dominance_stats(activities, meaningful, productive_time,
                                               unproductive_time, neutral_time)])

\* The type switches along a list of types, current_type following each switch.
RECURSIVE CountSwitches(_)
CountSwitches(types) ==
    IF Len(types) < 2 THEN 0
    ELSE (IF types[2] # types[1] THEN 1 ELSE 0) + CountSwitches(Tail(types))

\* The band and the rounded figures of switches_per_hour = switches /
\* (meaningful_time_sec / 60) * 60, computed exactly on the fraction
\* 3600 * switches / meaningful_time_sec; switches_per_hour and flow_score are
\* in tenths, as round(x, 1) leaves them.
flow_band(switches, meaningful_time_sec, noise_activities) ==
    LET m == IF meaningful_time_sec > 0 THEN meaningful_time_sec ELSE 1
        r == IF meaningful_time_sec > 0 THEN 3600 * switches ELSE 0
        quality == IF r =< 2 * m THEN "excellent"
                   ELSE IF r =< 5 * m THEN "good"
                   ELSE IF r =< 10 * m THEN "moderate"
                   ELSE "fragmented"
        score_times_m ==
            CASE quality = "excellent" ->
                     90 * m + (IF 10 * m < (2 * m - r) * 5 THEN 10 * m ELSE (2 * m - r) * 5)
              [] quality = "good" -> 70 * m + (5 * m - r) * 6
              [] quality = "moderate" -> 40 * m + (10 * m - r) * 6
              [] OTHER -> IF 10 * m > 40 * m - (r - 10 * m) * 3
                          THEN 10 * m ELSE 40 * m - (r - 10 * m) * 3
    IN  [flow_quality |-> quality,
         switches |-> switches,
         switches_per_hour |-> round(10 * r, m),
         flow_score |-> round(10 * score_times_m, m),
         noise_activities |-> noise_activities]

\* The early return for fewer than two meaningful activities (flow_score 100).
single_task == [flow_quality |-> "single_task", switches |-> 0, flow_score |-> 1000]

\* FlowAwareAnalyzer.analyze_session_flow_quality(activities, stats)
FlowAwareAnalyzer_analyze_session_flow_quality(activities, stats, oracle) ==
    LET meaningful == FlowAwareAnalyzer_meaningful(activities)
        types == [i \in 1 .. Len(meaningful) |->
                     FlowAwareAnalyzer_classify_activity_type(meaningful[i], oracle).value]
    IN  IF Len(meaningful) < 2 THEN Return(single_task)
        ELSE Return(flow_band(CountSwitches(types), stats.meaningful_time_sec,
                              Len(activities) - Len(meaningful)))

\* FlowAnalyzer.analyze_session_flow_quality(activities, stats): an exception
\* of the classifier ends the call.
FlowAnalyzer_analyze_session_flow_quality(activities, stats, oracle) ==
    LET meaningful == FlowAnalyzer_meaningful(activities)
        calls == [i \in 1 .. Len(meaningful) |->
                     ActivityClassifier_classify_activity_type(meaningful[i], oracle)]
        types == [i \in 1 .. Len(meaningful) |-> calls[i].value]
    IN  IF Len(meaningful) < 2 THEN Return(single_task)
        ELSE IF \E i \in 1 .. Len(calls) : calls[i].raised # "none"
        THEN LET first == CHOOSE i \in 1 .. Len(calls) :
                              /\ calls[i].raised # "none"
                              /\ \A j \in 1 .. i - 1 : calls[j].raised = "none"
             IN  Raise(calls[first].raised)
        ELSE Return(flow_band(CountSwitches(types), stats.meaningful_time_sec,
                              Len(activities) - Len(meaningful)))

one_day == 86400

\* datetime.date() of a time in seconds; time 0 is a midnight.
date(timestamp) == timestamp \div one_day

\* recalculate_session_scores_for_activity: every session that starts on the
\* day of activity_timestamp gets the time-weighted score of the scored
\* activities that start within it.
recalculate_session_scores_for_activity(sessions, logs, activity_timestamp) ==
    [k \in 1 .. Len(sessions) |->
        LET InSession(a) == /\ a.timestamp_start >= sessions[k].start_time
                            /\ a.timestamp_start =< sessions[k].end_time
                            /\ a.productivity_score # None
            scored == SelectSeq(logs, InSession)
            total_time == SumSeq(Durs(scored))
        IN  IF date(sessions[k].start_time) = date(activity_timestamp) /\ total_time > 0
            THEN [sessions[k] EXCEPT
                    !.productivity_score = round(SumSeq(WeightedOr0(scored)), total_time)]
            ELSE sessions[k]]

\* update_activity_scores: <<activity_logs, activity_sessions>> afterwards.
update_activity_scores(logs, sessions, activity_id, productivity_score) ==
    LET logs1 == [k \in 1 .. Len(logs) |->
                    IF logs[k].id = activity_id
                    THEN [logs[k] EXCEPT !.productivity_score = productivity_score]
                    ELSE logs[k]]
        activity == logs1[CHOOSE k \in 1 .. Len(logs) : logs[k].id = activity_id]
    IN  IF \E k \in 1 .. Len(logs) : logs[k].id = activity_id
        THEN <<logs1, recalculate_session_scores_for_activity(
                          sessions, logs1, activity.timestamp_start)>>
        ELSE <<logs, sessions>>

(***************************************************************************)
(* RealTimeSessionGrouper.                                                 *)
(***************************************************************************)
minimum_focus_time == 180
minimum_break_time == 120
context_switch_threshold == 300
noise_threshold == 60
session_timeout == 300

\* SessionDecisionEngine.is_noise_activity
is_noise_activity(activity) == activity.duration_sec < noise_threshold

RealTimeSessionGrouper__init__ ==
    [current_session |-> NoSession, current_context |-> "None",
     context_start_time |-> None, pending_activities |-> <<>>]

\* What a grouper method leaves behind: the object, table activity_sessions
\* and the ghost record of the sessions saved.
GrouperOutcome(g, table, origin) == [grouper |-> g, table |-> table, origin |-> origin]

should_create_session_without_major_switch(g, time_in_context, new_activity_type) ==
    \/ /\ g.current_context = "productive"
       /\ time_in_context >= minimum_focus_time
       /\ new_activity_type = "unproductive"
    \/ /\ g.current_context = "unproductive"
       /\ time_in_context >= minimum_break_time
       /\ new_activity_type = "productive"

should_create_session(g, time_in_context, new_activity_type) ==
    \/ /\ g.current_context = "productive"
       /\ time_in_context >= minimum_focus_time
       /\ new_activity_type = "unproductive"
    \/ /\ g.current_context = "unproductive"
       /\ time_in_context >= minimum_break_time
       /\ new_activity_type = "productive"
    \/ time_in_context >= context_switch_threshold

\* SessionDecisionEngine.should_create_session, with the thresholds of
\* REALTIME_SESSION_SETTINGS.
SessionDecisionEngine_should_create_session(current_context, time_in_context, new_activity_type) ==
    IF /\ current_context = "productive"
       /\ time_in_context >= minimum_focus_time
       /\ new_activity_type = "unproductive"
    THEN TRUE
    ELSE IF /\ current_context = "unproductive"
            /\ time_in_context >= minimum_break_time
            /\ new_activity_type = "productive"
    THEN TRUE
    ELSE time_in_context >= context_switch_threshold

\* start_new_session folding every pending activity in, whatever its type.
start_new_session_folding_all(g, activity, activity_type) ==
    [g EXCEPT
        !.current_session = [activities |-> <<activity>> \o g.pending_activities,
                             start_time |-> activity.timestamp_start,
                             dominant_type |-> activity_type],
        !.current_context = activity_type,
        !.context_start_time = activity.timestamp_start,
        !.pending_activities = <<>>]

start_new_session(g, activity, activity_type) ==
    LET Matches(a) == classify_activity_type(a) = activity_type
        Differs(a) == classify_activity_type(a) # activity_type
        matching_pending == SelectSeq(g.pending_activities, Matches)
    IN  [g EXCEPT
            !.current_session = [activities |-> <<activity>> \o matching_pending,
                                 start_time |-> activity.timestamp_start,
                                 dominant_type |-> activity_type],
            !.current_context = activity_type,
            !.context_start_time = activity.timestamp_start,
            !.pending_activities = SelectSeq(@, Differs)]

add_to_current_session(g, activity) ==
    IF g.current_session # NoSession
    THEN [g EXCEPT !.current_session.activities = Append(@, activity)]
    ELSE g

\* The activities of the model carry no app or domain in their details, so the
\* name is the generic one of the dominant type.
generate_session_name(activities, dominant_type) ==
    IF activities = <<>> THEN "Empty Session"
    ELSE IF dominant_type = "productive" THEN "Productive Work Session"
    ELSE IF dominant_type = "unproductive" THEN "Break Session"
    ELSE "Mixed Activity Session"

finalize_current_session(g, table, origin) ==
    IF g.current_session = NoSession THEN GrouperOutcome(g, table, origin)
    ELSE
        LET activities == g.current_session.activities
            total_duration == SumSeq(Durs(activities))
            session_name == generate_session_name(activities, g.current_session.dominant_type)
            last == activities[Len(activities)]
            session_score == calculate_session_score(activities).value
        IN  GrouperOutcome(
                [g EXCEPT !.current_session = NoSession,
                          !.current_context = "None",
                          !.context_start_time = None],
                save_activity_session(table, session_name, session_score,
                                      g.current_session.start_time, end_time(last),
                                      total_duration, FALSE),
                Append(origin, [by |-> "RealTimeSessionGrouper", members |-> activities]))

check_session_timeout(g, table, origin, now) ==
    IF g.current_session = NoSession THEN GrouperOutcome(g, table, origin)
    ELSE
        LET last_activity == g.current_session.activities[Len(g.current_session.activities)]
            time_since_last == now - end_time(last_activity)
        IN  IF time_since_last > session_timeout
            THEN finalize_current_session(g, table, origin)
            ELSE GrouperOutcome(g, table, origin)

\* on_new_activity; now is the wall clock read by check_session_timeout.  The
\* result also carries the activity object, with the score classification set.
on_new_activity(g, table, origin, activity, now) ==
    IF activity.duration_sec < noise_threshold
    THEN [grouper |-> g, table |-> table, origin |-> origin, activity |-> activity]
    ELSE
        LET scored == Classified(activity)
            activity_type == classify_activity_type(activity)
            time_in_current_context == scored.timestamp_start - g.context_start_time
            finalized == finalize_current_session(g, table, origin)
            handled ==
                IF g.current_context = "None"
                THEN GrouperOutcome(start_new_session(g, scored, activity_type), table, origin)
                ELSE IF activity_type # g.current_context
                THEN IF should_create_session(g, time_in_current_context, activity_type)
                     THEN GrouperOutcome(
                            start_new_session(finalized.grouper, scored, activity_type),
                            finalized.table, finalized.origin)
                     ELSE GrouperOutcome(
                            [g EXCEPT !.pending_activities = Append(@, scored)],
                            table, origin)
                ELSE GrouperOutcome(add_to_current_session(g, scored), table, origin)
            checked == check_session_timeout(handled.grouper, handled.table,
                                             handled.origin, now)
        IN  [grouper |-> checked.grouper, table |-> checked.table,
             origin |-> checked.origin, activity |-> scored]

(***************************************************************************)
(* Gap-range finder and the bounded batch pass over the activity store.    *)
(***************************************************************************)
GAP_THRESHOLD_SEC == 1800
MICRO_BREAK_THRESHOLD_SEC == 300
RANGE_GAP_SEC == 1800
fallback_buffer == 7200

\* The first query of find_smart_sessionization_ranges: the activities without
\* a session, of positive duration, by timestamp_start.
unsessionized(logs) ==
    LET Unsessionized(a) == a.session_id = None /\ a.duration_sec > 0
    IN  sorted(SelectSeq(logs, Unsessionized))

\* calculate_processing_bounds without the one-day window of the two queries.
calculate_processing_bounds_unbounded(sessions, gap_start, gap_end) ==
    LET before == {sessions[k].end_time : k \in
                     {j \in 1 .. Len(sessions) : sessions[j].end_time =< gap_start}}
        after == {sessions[k].start_time : k \in
                     {j \in 1 .. Len(sessions) : sessions[j].start_time >= gap_end}}
        process_start == IF before # {} THEN MaxOf(before) ELSE gap_start - fallback_buffer
        process_end == IF after # {} THEN MinOf(after) ELSE gap_end + fallback_buffer
    IN  <<process_start, process_end>>

calculate_processing_bounds(sessions, gap_start, gap_end) ==
    LET before == {sessions[k].end_time : k \in
                     {j \in 1 .. Len(sessions) :
                        /\ sessions[j].end_time =< gap_start
                        /\ sessions[j].end_time >= gap_start - one_day}}
        after == {sessions[k].start_time : k \in
                     {j \in 1 .. Len(sessions) :
                        /\ sessions[j].start_time >= gap_end
                        /\ sessions[j].start_time =< gap_end + one_day}}
        process_start == IF before # {} THEN MaxOf(before) ELSE gap_start - fallback_buffer
        process_end == IF after # {} THEN MinOf(after) ELSE gap_end + fallback_buffer
    IN  <<process_start, process_end>>

\* The loop of find_smart_sessionization_ranges from index i of the list on.
RECURSIVE RangesLoop(_, _, _, _, _)
RangesLoop(uns, i, current_gap_start, ranges, sessions) ==
    IF i > Len(uns)
    THEN Append(ranges,
                calculate_processing_bounds(sessions, current_gap_start,
                                            end_time(uns[Len(uns)])))
    ELSE
        LET time_gap == uns[i].timestamp_start - uns[i - 1].timestamp_start
        IN  IF time_gap > RANGE_GAP_SEC
            THEN RangesLoop(uns, i + 1, uns[i].timestamp_start,
                            Append(ranges,
                                   calculate_processing_bounds(sessions, current_gap_start,
                                                               end_time(uns[i - 1]))),
                            sessions)
            ELSE RangesLoop(uns, i + 1, current_gap_start, ranges, sessions)

\* find_smart_sessionization_ranges without the ranges appended in the loop:
\* only the final span is returned.
find_smart_sessionization_ranges_final_only(logs, sessions) ==
    LET uns == unsessionized(logs)
    IN  IF uns = <<>> THEN <<>>
        ELSE LET all == RangesLoop(uns, 2, uns[1].timestamp_start, <<>>, sessions)
             IN  <<all[Len(all)]>>

find_smart_sessionization_ranges(logs, sessions) ==
    LET uns == unsessionized(logs)
    IN  IF uns = <<>> THEN <<>>
        ELSE RangesLoop(uns, 2, uns[1].timestamp_start, <<>>, sessions)

\* timestamp_start > :start_time instead of >=
fetch_activities_in_time_range_exclusive(logs, start_time, end_time_) ==
    LET InRange(a) == /\ a.timestamp_start > start_time
                      /\ a.timestamp_start =< end_time_
                      /\ a.duration_sec > 0
    IN  sorted(SelectSeq(logs, InRange))

fetch_activities_in_time_range(logs, start_time, end_time_) ==
    LET InRange(a) == /\ a.timestamp_start >= start_time
                      /\ a.timestamp_start =< end_time_
                      /\ a.duration_sec > 0
    IN  sorted(SelectSeq(logs, InRange))

\* UPDATE activity_logs SET session_id = :session_id, on every row.
assign_session_to_activities_unfiltered(logs, activity_ids, session_id) ==
    [k \in 1 .. Len(logs) |-> [logs[k] EXCEPT !.session_id = session_id]]

\* UPDATE activity_logs SET session_id = :session_id WHERE id IN :activity_ids
assign_session_to_activities(logs, activity_ids, session_id) ==
    [k \in 1 .. Len(logs) |->
        IF logs[k].id \in activity_ids
        THEN [logs[k] EXCEPT !.session_id = session_id]
        ELSE logs[k]]

\* The store a batch pass works on.
Store(logs, sessions, origin) == [logs |-> logs, sessions |-> sessions, origin |-> origin]

\* One group of a processing range: the members that still lack a session_id
\* are persisted as one session and assigned to it; the others are left alone.
PersistGroup(db, group) ==
    LET StillUnassigned(a) ==
            \E k \in 1 .. Len(db.logs) :
                db.logs[k].id = a.id /\ db.logs[k].session_id = None
        members == SelectSeq(group, StillUnassigned)
        session_id == Len(db.sessions) + 1
    IN  IF members = <<>> THEN db
        ELSE Store(
                assign_session_to_activities(db.logs, Range(Ids(members)), session_id),
                save_activity_session(db.sessions, "Batch Session",
                                      calculate_weighted_score(members).value,
                                      members[1].timestamp_start,
                                      end_time(members[Len(members)]),
                                      SumSeq(Durs(members)), FALSE),
                Append(db.origin, [by |-> "batch", members |-> members, group |-> group]))

RECURSIVE PersistGroups(_, _)
PersistGroups(db, groups) ==
    IF groups = <<>> THEN db
    ELSE PersistGroups(PersistGroup(db, groups[1]), Tail(groups))

\* Each range is fetched and fed to batch_sessionize on its own.
RECURSIVE ProcessRanges(_, _)
ProcessRanges(db, ranges) ==
    IF ranges = <<>> THEN db
    ELSE LET activities == fetch_activities_in_time_range(db.logs, ranges[1][1], ranges[1][2])
             groups == batch_sessionize(activities, GAP_THRESHOLD_SEC,
                                        MICRO_BREAK_THRESHOLD_SEC)
         IN  ProcessRanges(PersistGroups(db, groups), Tail(ranges))

analyze_and_group_activities_bounded(db) ==
    ProcessRanges(db, find_smart_sessionization_ranges(db.logs, db.sessions))

InitStore ==
    /\ activity_logs = <<>>
    /\ logger = [start_ts |-> 0, now |-> 0]
    /\ grouper = RealTimeSessionGrouper__init__
    /\ rescored = None

(***************************************************************************)
(* Producers of the SessionState machine: one activity per minute.         *)
(*   steady: a base score, left for single samples at most MaxOutliers     *)
(*           times;                                                        *)
(*   const:  the base score on every sample;                               *)
(*   alt:    +base, -base, +base, ...                                      *)
(*   cycle:  the base score, but 50 on the 4th and 0 on the 16th sample of *)
(*           every CycleLength samples.                                    *)
(* Every activity of a producer has the same duration.                     *)
(***************************************************************************)
SteadyBases == {21, 30}
CycleLength == HARD_WORK_MIN + HARD_BREAK_MIN
OutlierScores == {None, 0, 50}
HystBases == {10, 30, 50}
FeedDurations == {0, 1}

\* n counts the activities fed, outliers the samples off the base score, and
\* opened_at lists the samples (counted from 1) at which a session was opened.
Feed(kind, base, dur) ==
    [kind |-> kind, base |-> base, duration_sec |-> dur, n |-> 0, outliers |-> 0,
     opened_at |-> <<>>]

InitIdleState ==
    /\ feed = Feed("off", 0, 0)
    /\ state = SessionState__init__

NextScores ==
    CASE feed.kind = "steady" ->
            IF feed.n >= MaxSamples THEN {}
            ELSE {feed.base} \cup (IF feed.outliers < MaxOutliers THEN OutlierScores ELSE {})
      [] feed.kind = "const" -> IF feed.n >= MaxHystSamples THEN {} ELSE {feed.base}
      [] feed.kind = "alt" ->
            IF feed.n >= MaxHystSamples THEN {}
            ELSE IF feed.n % 2 = 0 THEN {feed.base} ELSE {0 - feed.base}
      [] feed.kind = "cycle" ->
            IF feed.n >= MaxCycleSamples THEN {}
            ELSE IF feed.n % CycleLength = 3 THEN {50}
            ELSE IF feed.n % CycleLength = 15 THEN {0}
            ELSE {feed.base}
      [] OTHER -> {}

\* SessionState.add_activity, called with the producer's next activity.
AddActivity ==
    \E s \in NextScores :
        LET activity == ActivityLogStub(feed.n + 1, feed.n, feed.duration_sec, s)
            out == add_activity(state, activity_sessions, session_origin, activity)
        IN  /\ feed' = [feed EXCEPT
                          !.n = @ + 1,
                          !.outliers = IF s = feed.base THEN @ ELSE @ + 1,
                          !.opened_at =
                              IF state.current_session = NoSession
                                 /\ out.state.current_session # NoSession
                              THEN Append(@, feed.n + 1) ELSE @]
            /\ state' = out.state
            /\ activity_sessions' = out.sessions
            /\ session_origin' = out.origin
            /\ raised' = out.raised
            /\ UNCHANGED <<pureVars, analysisVars, storeVars>>

InitSteady ==
    /\ \E b \in SteadyBases, d \in FeedDurations : feed = Feed("steady", b, d)
    /\ state = SessionState__init__

InitHyst ==
    /\ \E k \in {"const", "alt"}, b \in HystBases : feed = Feed(k, b, 1)
    /\ state = SessionState__init__

InitCycle ==
    /\ \E b \in SteadyBases, d \in FeedDurations : feed = Feed("cycle", b, d)
    /\ state = SessionState__init__

NextState == AddActivity

(***************************************************************************)
(* The flow specification: a caller builds an activity list and hands it   *)
(* to one of the flow-analysis functions of the two analyzers.             *)
(***************************************************************************)
FlowDurations == {60, 300, 900, 2700}
\* <<details, productivity_score>>: classified by the oracle, not classified
\* yet, or carrying a score the oracle would not give now
FlowKinds == {<<"vscode", 45>>, <<"youtube", -30>>, <<"gmail", 5>>, <<"gmail", None>>,
              <<"youtube", 20>>}

FlowActivity(i, t, kind, d) ==
    [ActivityLog(i, t, kind[1], d) EXCEPT !.productivity_score = kind[2]]

DominanceFunctions ==
    {"FlowAwareAnalyzer.calculate_session_type_with_dominance",
     "FlowAnalyzer.calculate_session_type_with_dominance"}
FlowQualityFunctions ==
    {"FlowAwareAnalyzer.analyze_session_flow_quality",
     "FlowAnalyzer.analyze_session_flow_quality"}
FlowFunctions == DominanceFunctions \cup FlowQualityFunctions
ClassifierFunctions ==
    {"FlowAwareAnalyzer.classify_activity_type", "ActivityClassifier.classify_activity_type"}

NoiseFilters ==
    {"FlowAwareAnalyzer.filter_noise_activities", "FlowAnalyzer.filter_noise_activities"}

ApplyNoiseFilter(f, activities) ==
    IF f = "FlowAwareAnalyzer.filter_noise_activities"
    THEN FlowAwareAnalyzer_filter_noise_activities(activities)
    ELSE FlowAnalyzer_filter_noise_activities(activities)

ApplyClassifier(f, activity, oracle) ==
    IF f = "FlowAwareAnalyzer.classify_activity_type"
    THEN FlowAwareAnalyzer_classify_activity_type(activity, oracle)
    ELSE ActivityClassifier_classify_activity_type(activity, oracle)

\* session_type, stats = calculate_session_type_with_dominance(activities),
\* then analyze_session_flow_quality(activities, stats), as the callers do.
ApplyFlow(f, activities, oracle) ==
    LET aware == FlowAwareAnalyzer_calculate_session_type_with_dominance(activities, oracle)
        plain == FlowAnalyzer_calculate_session_type_with_dominance(activities)
    IN  CASE f = "FlowAwareAnalyzer.calculate_session_type_with_dominance" -> aware
          [] f = "FlowAnalyzer.calculate_session_type_with_dominance" -> plain
          [] f = "FlowAwareAnalyzer.analyze_session_flow_quality" ->
                 FlowAwareAnalyzer_analyze_session_flow_quality(
                     activities, aware.value.stats, oracle)
          [] OTHER ->
                 IF plain.raised # "none" THEN plain
                 ELSE FlowAnalyzer_analyze_session_flow_quality(
                          activities, plain.value.stats, oracle)

NoCall == [function |-> "none", args |-> <<>>, result |-> Return(0)]

InitFlowCalls ==
    /\ flow = [activities |-> <<>>, function |-> "none", oracle |-> "ok", index |-> 0,
               result |-> Return(0)]
    /\ commentary = [prev_session_meta |-> [session_type |-> "None", duration |-> 0],
                     prev_activities |-> <<>>,
                     new_session_meta |-> [session_type |-> "None", duration |-> 0],
                     new_activities |-> <<>>,
                     returned |-> FALSE, result |-> Return("")]

InitAnalysis == InitFlowCalls /\ call = NoCall

FlowAddActivity ==
    /\ flow.function = "none"
    /\ Len(flow.activities) < MaxFlowActs
    /\ \E kind \in FlowKinds, d \in FlowDurations :
          flow' = [flow EXCEPT !.activities =
                      Append(@, FlowActivity(Len(@) + 1, TimeOf(@), kind, d))]
    /\ UNCHANGED <<pureVars, stateVars, dbVars, storeVars, raised, commentary, call>>

AnalyzeFlow ==
    /\ flow.function = "none"
    /\ \E f \in FlowFunctions, oracle \in Oracles :
          flow' = [flow EXCEPT !.function = f, !.oracle = oracle,
                               !.result = ApplyFlow(f, flow.activities, oracle)]
    /\ UNCHANGED <<pureVars, stateVars, dbVars, storeVars, raised, commentary, call>>

\* One classify_activity_type call on one activity of the list.
Classify ==
    /\ flow.function = "none"
    /\ \E f \in ClassifierFunctions, oracle \in Oracles, i \in 1 .. Len(flow.activities) :
          flow' = [flow EXCEPT !.function = f, !.oracle = oracle, !.index = i,
                               !.result = ApplyClassifier(f, flow.activities[i], oracle)]
    /\ UNCHANGED <<pureVars, stateVars, dbVars, storeVars, raised, commentary, call>>

\* One filter_noise_activities call on the list.
FilterNoise ==
    /\ flow.function = "none"
    /\ \E f \in NoiseFilters :
          flow' = [flow EXCEPT !.function = f,
                               !.result = Return(ApplyNoiseFilter(f, flow.activities))]
    /\ UNCHANGED <<pureVars, stateVars, dbVars, storeVars, raised, commentary, call>>

NextFlow == FlowAddActivity \/ AnalyzeFlow \/ Classify \/ FilterNoise

(***************************************************************************)
(* The batch specification: a caller builds an activity list in any order  *)
(* and calls batch_sessionize on it.                                       *)
(***************************************************************************)
InitBatch ==
    \E th \in BatchThresholds :
        batch = [activities |-> <<>>, gap_threshold_sec |-> th[1],
                 micro_break_threshold_sec |-> th[2], returned |-> FALSE, sessions |-> <<>>]

InitScoring ==
    scoring = [session |-> <<>>, function |-> "none", result |-> Return(0)]

BatchAddActivity ==
    /\ ~batch.returned
    /\ Len(batch.activities) < MaxActs
    /\ \E t \in StartTimes, d \in Durations, s \in BatchScores :
          batch' = [batch EXCEPT !.activities =
                       Append(@, ActivityLogStub(Len(@) + 1, t, d, s))]
    /\ UNCHANGED <<scoring, stateVars, dbVars, storeVars, raised, analysisVars>>

BatchSessionize ==
    /\ ~batch.returned
    /\ batch' = [batch EXCEPT !.returned = TRUE,
                              !.sessions = batch_sessionize(batch.activities,
                                               batch.gap_threshold_sec,
                                               batch.micro_break_threshold_sec)]
    /\ UNCHANGED <<scoring, stateVars, dbVars, storeVars, raised, analysisVars>>

NextBatch == BatchAddActivity \/ BatchSessionize

InitSpecBatch == InitBatch /\ InitScoring /\ InitIdleState /\ InitDb /\ InitStore /\ InitAnalysis

SpecBatch == InitSpecBatch /\ [][NextBatch]_vars

\* The groups' members, in the order returned.
RECURSIVE Flatten(_)
Flatten(ss) == IF ss = <<>> THEN <<>> ELSE ss[1] \o Flatten(Tail(ss))

Count(x, s) == Cardinality({i \in 1 .. Len(s) : s[i] = x})

\* C1: batch_sessionize returns non-empty groups that together hold every
\* input activity exactly once (multiset equality with the input); the empty
\* input gives the empty result.
C1_PartitionComplete ==
    batch.returned =>
        /\ \A i \in 1 .. Len(batch.sessions) : batch.sessions[i] # <<>>
        /\ LET flat == Flatten(batch.sessions)
           IN  /\ Len(flat) = Len(batch.activities)
               /\ \A a \in Range(batch.activities) \cup Range(flat) :
                     Count(a, flat) = Count(a, batch.activities)
        /\ (batch.activities = <<>> => batch.sessions = <<>>)

\* A call that split a full-length, unordered input into several groups.
C1_Witness ==
    /\ batch.returned
    /\ Len(batch.activities) = MaxActs
    /\ Len(batch.sessions) >= 2
    /\ \E i \in 1 .. Len(batch.activities) - 1 :
          batch.activities[i].timestamp_start > batch.activities[i + 1].timestamp_start

GroupStart(g) == MinOf({a.timestamp_start : a \in Range(g)})
GroupEnd(g) == MaxOf({end_time(a) : a \in Range(g)})

\* C2: the groups returned by batch_sessionize, in start order, do not overlap
\* in time: each group's earliest start_time is >= the previous group's latest
\* end_time, for any input list.
C2_GroupsDoNotOverlap ==
    batch.returned =>
        \A i \in 2 .. Len(batch.sessions) :
            GroupStart(batch.sessions[i]) >= GroupEnd(batch.sessions[i - 1])

(***************************************************************************)
(* The scoring specification: a caller builds a member list and hands it   *)
(* to one of the scoring functions.                                        *)
(***************************************************************************)
ScoringAddActivity ==
    /\ scoring.function = "none"
    /\ Len(scoring.session) < MaxScored
    /\ \E d \in Durations, s \in ScoreValues :
          scoring' = [scoring EXCEPT !.session =
                         Append(@, ActivityLogStub(Len(@) + 1, Len(@), d, s))]
    /\ UNCHANGED <<batch, stateVars, dbVars, storeVars, raised, analysisVars>>

ScoreSession ==
    /\ scoring.function = "none"
    /\ \E f \in ScoringFunctions :
          \* _end_session is only reached with an open session, which has members
          /\ (f = "end_session_score" => scoring.session # <<>>)
          /\ scoring' = [scoring EXCEPT !.function = f,
                                     !.result = ApplyScoring(f, scoring.session)]
    /\ UNCHANGED <<batch, stateVars, dbVars, storeVars, raised, analysisVars>>

NextScoring == ScoringAddActivity \/ ScoreSession

InitSpecScoring == InitBatch /\ InitScoring /\ InitIdleState /\ InitDb /\ InitStore /\ InitAnalysis

SpecScoring == InitSpecScoring /\ [][NextScoring]_vars

InitSpecState == InitBatch /\ InitScoring /\ InitSteady /\ InitDb /\ InitStore /\ InitAnalysis

SpecState == InitSpecState /\ [][NextState]_vars

InitSpecHyst == InitBatch /\ InitScoring /\ InitHyst /\ InitDb /\ InitStore /\ InitAnalysis

SpecHyst == InitSpecHyst /\ [][NextState]_vars

InitSpecCycle == InitBatch /\ InitScoring /\ InitCycle /\ InitDb /\ InitStore /\ InitAnalysis

SpecCycle == InitSpecCycle /\ [][NextState]_vars

(***************************************************************************)
(* The logger thread and the batch pass on one store.                      *)
(***************************************************************************)
\* Seconds a window keeps the focus before the logger sees it change.
LogDurations == {30, 180, 2400}

\* One turn of the loop of start_logging._thread in which the active window
\* has changed: the window left is logged with the time of the change as its
\* timestamp_start, handed to the grouper, and its score is written back.
LogActivity ==
    /\ Len(activity_logs) < MaxLogged
    /\ logger.now = logger.start_ts
    /\ \E duration \in LogDurations, prev_details \in Details :
        LET timestamp == logger.start_ts + duration
            logs1 == add_activity_log(activity_logs, timestamp, prev_details, duration)
            activity == logs1[Len(logs1)]
            out == on_new_activity(grouper, activity_sessions, session_origin,
                                   activity, timestamp)
            updated == IF out.activity.productivity_score # None
                       THEN update_activity_scores(logs1, out.table, activity.id,
                                                   out.activity.productivity_score)
                       ELSE <<logs1, out.table>>
        IN  /\ activity_logs' = updated[1]
            /\ activity_sessions' = updated[2]
            /\ session_origin' = out.origin
            /\ grouper' = out.grouper
            /\ logger' = [start_ts |-> timestamp, now |-> timestamp]
    /\ UNCHANGED <<pureVars, analysisVars, stateVars, raised, rescored>>

\* One bounded batch pass of the main thread.
BatchPass ==
    LET db == analyze_and_group_activities_bounded(
                  Store(activity_logs, activity_sessions, session_origin))
    IN  /\ activity_logs' = db.logs
        /\ activity_sessions' = db.sessions
        /\ session_origin' = db.origin
        /\ UNCHANGED <<pureVars, analysisVars, stateVars, raised, logger, grouper, rescored>>

NextStore == LogActivity \/ BatchPass

InitSpecStore == InitBatch /\ InitScoring /\ InitIdleState /\ InitDb /\ InitStore /\ InitAnalysis

SpecStore == InitSpecStore /\ [][NextStore]_vars

(***************************************************************************)
(* The logger thread during inactivity.                                    *)
(***************************************************************************)
POLL_SEC == 10

\* One turn of the loop of start_logging._thread in which the active window
\* has not changed: the thread has slept POLL_SEC and does nothing else.  The
\* turns modelled are those of a last stretch of inactivity: no activity is
\* logged after them.
Poll ==
    /\ logger.now - logger.start_ts < MaxIdlePolls * POLL_SEC
    /\ logger' = [logger EXCEPT !.now = @ + POLL_SEC]
    /\ UNCHANGED <<pureVars, analysisVars, stateVars, dbVars, raised, activity_logs, grouper,
                   rescored>>

NextIdle == LogActivity \/ Poll

SpecIdle == InitSpecStore /\ [][NextIdle]_vars

InitSpecFlow == InitBatch /\ InitScoring /\ InitIdleState /\ InitDb /\ InitStore /\ InitAnalysis

SpecFlow == InitSpecFlow /\ [][NextFlow]_vars

(***************************************************************************)
(* The store with a late score update: after the logger thread and the     *)
(* batch passes have filled the tables, update_activity_scores is called   *)
(* once more for one logged activity.  The logger may start shortly before *)
(* midnight.                                                               *)
(***************************************************************************)
ClockStarts == {0, one_day - 200}
RescoreValues == {-40, 40}

Rescore ==
    /\ rescored = None
    /\ \E k \in 1 .. Len(activity_logs), productivity_score \in RescoreValues :
          LET updated == update_activity_scores(activity_logs, activity_sessions,
                                                activity_logs[k].id, productivity_score)
          IN  /\ activity_logs' = updated[1]
              /\ activity_sessions' = updated[2]
              /\ rescored' = activity_logs[k].id
    /\ UNCHANGED <<pureVars, analysisVars, stateVars, session_origin, raised, logger, grouper>>

NextRescore == LogActivity \/ BatchPass \/ Rescore

InitSpecRescore ==
    /\ InitBatch /\ InitScoring /\ InitIdleState /\ InitDb /\ InitAnalysis
    /\ activity_logs = <<>>
    /\ \E start_ts \in ClockStarts : logger = [start_ts |-> start_ts, now |-> start_ts]
    /\ grouper = RealTimeSessionGrouper__init__
    /\ rescored = None

SpecRescore == InitSpecRescore /\ [][NextRescore]_vars

(***************************************************************************)
(* generate_transition_commentary (backend/unused/commentator.py).  The    *)
(* chat collaborator answers with a non-empty text.                        *)
(***************************************************************************)
chat_commentary == "commentary"

\* prev_session_meta / new_session_meta = None (a meta dict is never empty)
NoSessionMeta == [session_type |-> "None", duration |-> 0]

\* The inner function summarize(meta, acts): the parts of the summary line.
summarize(meta, acts) ==
    IF meta = NoSessionMeta THEN [text |-> "No prior session (blank context)."]
    ELSE [session_type |-> meta.session_type,
          activities |-> [i \in 1 .. (IF Len(acts) < 3 THEN Len(acts) ELSE 3) |->
                             <<acts[i].details, acts[i].duration_sec \div 60>>],
          duration_min |-> meta.duration \div 60]

\* "" at the early exit, else the stripped answer of chat to the prompt built
\* from the two summaries.
generate_transition_commentary(prev_session_meta, prev_activities, new_session_meta, new_activities) ==
    IF prev_session_meta = NoSessionMeta /\ prev_activities = <<>> THEN Return("")
    ELSE
    LET prev_summary == IF prev_session_meta # NoSessionMeta
                        THEN summarize(prev_session_meta, prev_activities)
                        ELSE [text |-> "No previous session."]
        new_summary == summarize(new_session_meta, new_activities)
    IN  Return(chat_commentary)

\* The arguments of the callers: make_session_meta and make_activity_log.
SessionMetas ==
    {NoSessionMeta} \cup [session_type : {"productive", "unproductive"}, duration : {0, 1800}]
CommentedDetails == {"VSCode", "YouTube"}

CommentaryAddPrevious ==
    /\ ~commentary.returned
    /\ Len(commentary.prev_activities) < MaxCommented
    /\ \E details \in CommentedDetails :
          commentary' = [commentary EXCEPT !.prev_activities =
                            Append(@, ActivityLog(Len(@) + 1, 0, details, 900))]
    /\ UNCHANGED <<pureVars, stateVars, dbVars, storeVars, raised, flow, call>>

CommentaryAddNew ==
    /\ ~commentary.returned
    /\ Len(commentary.new_activities) < MaxCommented
    /\ \E details \in CommentedDetails :
          commentary' = [commentary EXCEPT !.new_activities =
                            Append(@, ActivityLog(Len(@) + 1, 0, details, 900))]
    /\ UNCHANGED <<pureVars, stateVars, dbVars, storeVars, raised, flow, call>>

GenerateCommentary ==
    /\ ~commentary.returned
    /\ \E prev_session_meta \in SessionMetas, new_session_meta \in SessionMetas :
          commentary' = [commentary EXCEPT
              !.prev_session_meta = prev_session_meta,
              !.new_session_meta = new_session_meta,
              !.returned = TRUE,
              !.result = generate_transition_commentary(
                             prev_session_meta, commentary.prev_activities,
                             new_session_meta, commentary.new_activities)]
    /\ UNCHANGED <<pureVars, stateVars, dbVars, storeVars, raised, flow, call>>

NextCommentary == CommentaryAddPrevious \/ CommentaryAddNew \/ GenerateCommentary

InitSpecCommentary == InitBatch /\ InitScoring /\ InitIdleState /\ InitDb /\ InitStore /\ InitAnalysis

SpecCommentary == InitSpecCommentary /\ [][NextCommentary]_vars

(***************************************************************************)
(* The decision specification: should_create_session, of the grouper and   *)
(* of SessionDecisionEngine, called with any context, dwell and new type.  *)
(***************************************************************************)
Contexts == {"productive", "unproductive", "neutral", "None"}
ActivityTypes == {"productive", "unproductive", "neutral"}
DwellTimes == {0, 119, 120, 179, 180, 299, 300, 400}
DecisionFunctions ==
    {"RealTimeSessionGrouper.should_create_session",
     "SessionDecisionEngine.should_create_session"}

\* The return value and the object the method was called on, afterwards.
ApplyDecision(f, args) ==
    LET self == [RealTimeSessionGrouper__init__ EXCEPT !.current_context = args.current_context]
    IN  IF f = "RealTimeSessionGrouper.should_create_session"
        THEN Return([returned |-> should_create_session(
                                      self, args.time_in_context, args.new_activity_type),
                     self |-> self])
        ELSE Return([returned |-> SessionDecisionEngine_should_create_session(
                                      args.current_context, args.time_in_context,
                                      args.new_activity_type),
                     self |-> self])

Decide ==
    /\ call.function = "none"
    /\ \E f \in DecisionFunctions :
          call' = [call EXCEPT !.function = f, !.result = ApplyDecision(f, call.args)]
    /\ UNCHANGED <<pureVars, stateVars, dbVars, storeVars, raised, flow, commentary>>

NextDecision == Decide

InitSpecDecision ==
    /\ InitBatch /\ InitScoring /\ InitIdleState /\ InitDb /\ InitStore /\ InitFlowCalls
    /\ \E args \in [current_context : Contexts, time_in_context : DwellTimes,
                    new_activity_type : ActivityTypes] :
          call = [NoCall EXCEPT !.args = args]

SpecDecision == InitSpecDecision /\ [][NextDecision]_vars

(***************************************************************************)
(* The bounds specification: calculate_processing_bounds is called for a   *)
(* gap on a table of at most two sessions, some of them more than a day    *)
(* away from the gap.                                                      *)
(***************************************************************************)
\* <<start_time, end_time>> of the sessions of the table, and
\* <<gap_start, gap_end>> of the gap.
SessionTimes == {<<0, 3600>>, <<3600, 7200>>, <<82800, 86400>>, <<93600, 97200>>,
                 <<180000, 183600>>, <<183601, 187200>>}
GapTimes == {<<86400, 93600>>, <<90000, 93600>>, <<90001, 97201>>, <<7200, 82800>>}

SessionRow(i, times) ==
    ActivitySession(i, "(session)", 0, times[1], times[2], times[2] - times[1], FALSE)

SessionTables ==
    {<<>>} \cup {<<SessionRow(1, a)>> : a \in SessionTimes}
           \cup {<<SessionRow(1, a), SessionRow(2, b)>> : a \in SessionTimes, b \in SessionTimes}

CalculateBounds ==
    /\ call.function = "none"
    /\ call' = [call EXCEPT
                  !.function = "calculate_processing_bounds",
                  !.result = Return(calculate_processing_bounds(
                                        call.args.sessions, call.args.gap[1],
                                        call.args.gap[2]))]
    /\ UNCHANGED <<pureVars, stateVars, dbVars, storeVars, raised, flow, commentary>>

NextBounds == CalculateBounds

InitSpecBounds ==
    /\ InitBatch /\ InitScoring /\ InitIdleState /\ InitDb /\ InitStore /\ InitFlowCalls
    /\ \E args \in [sessions : SessionTables, gap : GapTimes] :
          call = [NoCall EXCEPT !.args = args]

SpecBounds == InitSpecBounds /\ [][NextBounds]_vars

(***************************************************************************)
(* The typing specification: a productivity score is turned into a type,   *)
(* by classify_type and by the score branch of the two classifiers (an     *)
(* activity object that carries a score and user_confirmed).               *)
(***************************************************************************)
TypingScores == {None, -50, -20, -19, -15, -14, 0, 14, 15, 19, 20, 50}
TypingFunctions == {"classify_type"} \cup ClassifierFunctions

\* An activity object with the attribute user_confirmed set.
ConfirmedActivity(details, productivity_score) ==
    [id |-> 1, session_id |-> None, timestamp_start |-> 0, details |-> details,
     duration_sec |-> 900, productivity_score |-> productivity_score,
     user_confirmed |-> TRUE]

ApplyTyping(f, args) ==
    IF f = "classify_type" THEN Return(classify_type(args.productivity_score))
    ELSE LET out == ApplyClassifier(
                        f, ConfirmedActivity(args.details, args.productivity_score), "ok")
         IN  [raised |-> out.raised, value |-> out.value]

TypeScore ==
    /\ call.function = "none"
    /\ \E f \in TypingFunctions :
          call' = [call EXCEPT !.function = f, !.result = ApplyTyping(f, call.args)]
    /\ UNCHANGED <<pureVars, stateVars, dbVars, storeVars, raised, flow, commentary>>

NextTyping == TypeScore

InitSpecTyping ==
    /\ InitBatch /\ InitScoring /\ InitIdleState /\ InitDb /\ InitStore /\ InitFlowCalls
    /\ \E args \in [productivity_score : TypingScores, details : Details] :
          call = [NoCall EXCEPT !.args = args]

SpecTyping == InitSpecTyping /\ [][NextTyping]_vars



WeightedScorers == {"calculate_weighted_score", "weighted_score", "calculate_session_score"}

MemberScores(session) == {session[i].productivity_score : i \in 1 .. Len(session)}

\* C8 (as stated): for a non-empty session whose members all have a score the
\* weighted score lies within [min member score, max member score]; for a
\* session whose members are all unscored it is 0.
C8_ScoreWithinMemberBounds ==
    scoring.function \in WeightedScorers =>
        /\ (scoring.session # <<>> /\ ~HasNone(scoring.session)) =>
              /\ scoring.result.raised = "none"
              /\ scoring.result.value >= MinOf(MemberScores(scoring.session))
              /\ scoring.result.value =< MaxOf(MemberScores(scoring.session))
        /\ MemberScores(scoring.session) = {None} =>
              scoring.result = Return(0)

\* C8 (amended): the bounds hold when the members' durations sum to more than
\* zero; with a zero total duration the score is 0 whatever the member scores;
\* an all-unscored session scores 0.
C8_ScoreWithinBoundsPositiveDuration ==
    scoring.function \in WeightedScorers =>
        /\ (scoring.session # <<>> /\ ~HasNone(scoring.session)
              /\ SumSeq(Durs(scoring.session)) > 0) =>
              /\ scoring.result.raised = "none"
              /\ scoring.result.value >= MinOf(MemberScores(scoring.session))
              /\ scoring.result.value =< MaxOf(MemberScores(scoring.session))
        /\ SumSeq(Durs(scoring.session)) = 0 => scoring.result = Return(0)
        /\ MemberScores(scoring.session) = {None} => scoring.result = Return(0)

\* A scored session with unequal members and a positive total duration whose
\* score was computed, and rounds to a value strictly inside the bounds.
C8_Witness ==
    /\ scoring.function = "calculate_weighted_score"
    /\ Len(scoring.session) >= 2
    /\ ~HasNone(scoring.session)
    /\ SumSeq(Durs(scoring.session)) > 0
    /\ scoring.result.value > MinOf(MemberScores(scoring.session))
    /\ scoring.result.value < MaxOf(MemberScores(scoring.session))

\* C9: every session-scoring function returns 0 and raises nothing when its
\* list is empty or its durations sum to zero.
C9_ZeroDurationScoresZero ==
    (scoring.function # "none" /\ SumSeq(Durs(scoring.session)) = 0) =>
        scoring.result = Return(0)

\* C6 (as stated): from a fresh SessionState, 20 consecutive activities of
\* score +30 open exactly one session, while the 15th sample is processed.
C6_OpensAtFifteenth ==
    (feed.kind = "const" /\ feed.base = 30 /\ feed.n = 20) => feed.opened_at = <<15>>

\* C6 (amended): 20 consecutive activities of score +30 open no session:
\* work_counter counts the first 9 samples against the static thresholds, and
\* from the 10th sample, when both percentile thresholds equal 30, it decays by
\* one per sample down to 0; it never reaches HARD_WORK_MIN.
C6_ConstantFeedOpensNothing ==
    (feed.kind = "const" /\ feed.base = 30 /\ feed.n =< 20) =>
        /\ feed.opened_at = <<>>
        /\ state.current_session = NoSession
        /\ state.work_counter =
              (IF feed.n < STATIC_MIN_SAMPLES THEN feed.n
               ELSE IF feed.n < 18 THEN 18 - feed.n ELSE 0)
        /\ state.work_counter < HARD_WORK_MIN

\* The 20th sample of the constant +30 stream has been processed.
C6_Witness ==
    /\ feed.kind = "const" /\ feed.base = 30 /\ feed.n = 20
    /\ Len(state.score_buffer) = 20
    /\ state.ema_score = 30 * EmaScale

\* C7: from a fresh SessionState, scores alternating +30, -30, +30, ... never
\* open a session, however many samples: work_counter stays below 15 and
\* break_counter below 10.
C7_AlternatingNeverOpens ==
    (feed.kind = "alt" /\ feed.base = 30) =>
        /\ feed.opened_at = <<>>
        /\ state.current_session = NoSession
        /\ state.work_counter < HARD_WORK_MIN
        /\ state.break_counter < HARD_BREAK_MIN

\* The alternating stream has run past the point where the rolling buffer is
\* full and evicts its oldest sample.
C7_Witness ==
    /\ feed.kind = "alt" /\ feed.base = 30
    /\ feed.n > BUFFER_SIZE
    /\ Len(state.score_buffer) = BUFFER_SIZE

\* C10: when SessionState closes a session that has an unscored member, the
\* close completes without an error (the session is persisted, the state is
\* reset) and the unscored member counts as 0 in the persisted score.
C10_CloseWithUnscoredMember ==
    /\ raised # "TypeError"
    /\ ~(/\ state.current_session # NoSession
         /\ HasNone(state.current_session.activities)
         /\ state.break_counter >= HARD_BREAK_MIN)
    /\ \A i \in 1 .. Len(activity_sessions) :
          session_origin[i].by = "SessionState" =>
              activity_sessions[i].productivity_score =
                  calculate_weighted_score(session_origin[i].members).value

RealTimeSavers == {"SessionState", "RealTimeSessionGrouper"}

\* Ids of the activities that are members of a session the real-time path saved.
RealTimeMembers ==
    UNION {Range(Ids(session_origin[i].members)) :
             i \in {j \in 1 .. Len(session_origin) : session_origin[j].by \in RealTimeSavers}}

Overlap(s1, s2) == s1.start_time < s2.end_time /\ s2.start_time < s1.end_time

C4_RealTimeSessionsDisjoint ==
    \A i, j \in 1 .. Len(activity_sessions) :
        (i < j /\ session_origin[i].by \in RealTimeSavers
               /\ session_origin[j].by \in RealTimeSavers) =>
            /\ ~Overlap(activity_sessions[i], activity_sessions[j])
            /\ Range(Ids(session_origin[i].members))
                 \cap Range(Ids(session_origin[j].members)) = {}

\* C5: a member of a session persisted by the real-time path is never
\* reported as unsessionized by find_smart_sessionization_ranges and never
\* becomes a member of a second, batch-created session.
C5_BatchLeavesRealTimeSessionsAlone ==
    /\ \A a \in Range(unsessionized(activity_logs)) : a.id \notin RealTimeMembers
    /\ \A i \in 1 .. Len(session_origin) :
          session_origin[i].by = "batch" =>
              Range(Ids(session_origin[i].members)) \cap RealTimeMembers = {}

C12_IdleSessionForceClosed ==
    grouper.current_session # NoSession =>
        LET activities == grouper.current_session.activities
        IN  logger.now - end_time(activities[Len(activities)])
                =< session_timeout + POLL_SEC

\* The index of the group that holds the k-th activity of the result.
GroupIndexOf(ss, k) ==
    CHOOSE g \in 1 .. Len(ss) :
        /\ Len(Flatten(SubSeq(ss, 1, g - 1))) < k
        /\ k =< Len(Flatten(SubSeq(ss, 1, g)))

\* C13: two activities consecutive in start order are in different groups
\* whenever the later one starts more than gap_threshold_sec after the earlier
\* one's end_time, whatever their types and durations; A@0 dur 600 productive,
\* B@3600 dur 600 unproductive with gap_threshold_sec = 1800 give two sessions.
C13_GapAlwaysSplits ==
    /\ batch.returned =>
          LET flat == Flatten(batch.sessions)
          IN  /\ flat = sorted(batch.activities)
              /\ \A k \in 1 .. Len(flat) - 1 :
                    flat[k + 1].timestamp_start - end_time(flat[k]) > batch.gap_threshold_sec
                        => GroupIndexOf(batch.sessions, k)
                             # GroupIndexOf(batch.sessions, k + 1)
    /\ LET A == ActivityLogStub(1, 0, 600, 30)
           B == ActivityLogStub(2, 3600, 600, -30)
       IN  batch_sessionize(<<A, B>>, 1800, 300) = <<(<<A>>), (<<B>>)>>

\* A call that split two consecutive activities of the same type, the later
\* one short, on the gap alone.
C13_Witness ==
    /\ batch.returned
    /\ Len(batch.sessions) >= 2
    /\ LET flat == Flatten(batch.sessions)
       IN  \E k \in 1 .. Len(flat) - 1 :
              /\ flat[k + 1].timestamp_start - end_time(flat[k]) > batch.gap_threshold_sec
              /\ classify_type(flat[k].productivity_score)
                   = classify_type(flat[k + 1].productivity_score)
              /\ flat[k + 1].duration_sec =< batch.micro_break_threshold_sec
              /\ GroupIndexOf(batch.sessions, k) # GroupIndexOf(batch.sessions, k + 1)

\* C14: within the gap threshold, an activity whose type differs from the
\* previous one's, that is short (duration_sec <= micro_break_threshold_sec)
\* and whose predecessor has the type of the open buffer's first activity, is
\* appended to the open buffer; A@0 dur 1200 productive, B@1200 dur 120
\* unproductive, C@1320 dur 1200 productive with micro_break_threshold_sec =
\* 300 yield one session of the 3 activities.
C14_MicroBlipAbsorbed ==
    /\ batch.returned =>
          LET flat == Flatten(batch.sessions)
          IN  \A k \in 1 .. Len(flat) - 1 :
                LET g == GroupIndexOf(batch.sessions, k)
                IN  (/\ flat[k + 1].timestamp_start - end_time(flat[k])
                            =< batch.gap_threshold_sec
                     /\ classify_type(flat[k].productivity_score)
                            # classify_type(flat[k + 1].productivity_score)
                     /\ flat[k + 1].duration_sec =< batch.micro_break_threshold_sec
                     /\ classify_type(flat[k].productivity_score)
                            = classify_type(batch.sessions[g][1].productivity_score))
                    => GroupIndexOf(batch.sessions, k + 1) = g
    /\ LET A == ActivityLogStub(1, 0, 1200, 30)
           B == ActivityLogStub(2, 1200, 120, -30)
           C == ActivityLogStub(3, 1320, 1200, 30)
       IN  batch_sessionize(<<A, B, C>>, 1800, 300) = <<(<<A, B, C>>)>>

\* A call that absorbed a short activity of another type into a buffer that a
\* longer activity of the buffer's type had opened.
C14_Witness ==
    /\ batch.returned
    /\ \E g \in 1 .. Len(batch.sessions) :
          LET s == batch.sessions[g]
          IN  /\ Len(s) >= 2
              /\ classify_type(s[1].productivity_score)
                   # classify_type(s[2].productivity_score)
              /\ s[2].duration_sec =< batch.micro_break_threshold_sec
              /\ s[1].duration_sec > batch.micro_break_threshold_sec


\* The time of the meaningful activities of a dominance call that count as
\* the given type: by the classifier's category in FlowAwareAnalyzer, by the
\* sign of the score in FlowAnalyzer (an unscored activity is neutral).
FlowTypeOf(f, a, oracle) ==
    IF f = "FlowAwareAnalyzer.calculate_session_type_with_dominance"
    THEN FlowAwareAnalyzer_classify_activity_type(a, oracle).value
    ELSE IF a.productivity_score = None THEN "neutral"
    ELSE IF a.productivity_score > 0 THEN "productive"
    ELSE IF a.productivity_score < 0 THEN "unproductive"
    ELSE "neutral"

FlowMeaningful(f, activities) ==
    IF f = "FlowAwareAnalyzer.calculate_session_type_with_dominance"
    THEN FlowAwareAnalyzer_meaningful(activities)
    ELSE FlowAnalyzer_meaningful(activities)

ShareTime(f, activities, oracle, type) ==
    TimeOf(SelectSeq(FlowMeaningful(f, activities),
                     LAMBDA a : FlowTypeOf(f, a, oracle) = type))

\* The session type the shares p / m and u / m of meaningful time call for.
TypeByShares(p, u, m) ==
    IF m > 0 /\ 100 * p >= 75 * m THEN "productive"
    ELSE IF m > 0 /\ 100 * u >= 75 * m THEN "unproductive"
    ELSE IF p > u THEN "mostly_productive"
    ELSE IF u > p THEN "mostly_unproductive"
    ELSE "mixed"

\* Sessions at the boundary: 75% and 74.9% of 4000 meaningful seconds.
AtBoundary == <<FlowActivity(1, 0, <<"vscode", 45>>, 3000),
                FlowActivity(2, 3000, <<"youtube", -30>>, 1000)>>
BelowBoundary == <<FlowActivity(1, 0, <<"vscode", 45>>, 2996),
                   FlowActivity(2, 2996, <<"youtube", -30>>, 1004)>>

\* C15: calculate_session_type_with_dominance, of either analyzer, returns
\* "productive" (resp. "unproductive") exactly when that share of the
\* meaningful time of the session is >= 0.75, else "mostly_productive" or
\* "mostly_unproductive" when one share strictly exceeds the other, else
\* "mixed"; 75% productive is "productive" and 74.9% is "mostly_productive".
C15_DominanceByShares ==
    /\ \A f \in DominanceFunctions :
          /\ ApplyFlow(f, AtBoundary, "ok") =
                 [ApplyFlow(f, AtBoundary, "ok") EXCEPT
                     !.raised = "none", !.value.session_type = "productive"]
          /\ ApplyFlow(f, BelowBoundary, "ok") =
                 [ApplyFlow(f, BelowBoundary, "ok") EXCEPT
                     !.raised = "none", !.value.session_type = "mostly_productive"]
    /\ (flow.function \in DominanceFunctions /\ flow.activities # <<>>) =>
          /\ flow.result.raised = "none"
          /\ flow.result.value.session_type =
                 TypeByShares(
                     ShareTime(flow.function, flow.activities, flow.oracle, "productive"),
                     ShareTime(flow.function, flow.activities, flow.oracle, "unproductive"),
                     TimeOf(FlowMeaningful(flow.function, flow.activities)))


\* The meaningful activities of a flow-quality call and their types.
QualityMeaningful(f, activities) ==
    IF f = "FlowAwareAnalyzer.analyze_session_flow_quality"
    THEN FlowAwareAnalyzer_meaningful(activities)
    ELSE FlowAnalyzer_meaningful(activities)

\* The category of an activity as the claims describe it: from the oracle's
\* score when it answers, from the keywords when it fails.
CategoryOf(a, oracle) ==
    IF oracle = "ok" THEN ScoreCategory(chat(a.details)) ELSE KeywordCategory(a.details)

SwitchesBetween(meaningful, oracle) ==
    Cardinality({i \in 1 .. Len(meaningful) - 1 :
                    CategoryOf(meaningful[i], oracle) # CategoryOf(meaningful[i + 1], oracle)})

\* Band of the rate r = switches / (seconds / 60) * 60, and its flow score in
\* tenths before rounding, as the fraction <<numerator, seconds>>.
BandOfRate(switches, seconds) ==
    IF 3600 * switches =< 2 * seconds THEN "excellent"
    ELSE IF 3600 * switches =< 5 * seconds THEN "good"
    ELSE IF 3600 * switches =< 10 * seconds THEN "moderate"
    ELSE "fragmented"

ScoreOfRate(switches, seconds) ==
    LET r == 3600 * switches
        s == seconds
        band == BandOfRate(switches, seconds)
    IN  CASE band = "excellent" -> 900 * s + MinOf({100 * s, (2 * s - r) * 50})
          [] band = "good" -> 700 * s + (5 * s - r) * 60
          [] band = "moderate" -> 400 * s + (10 * s - r) * 60
          [] OTHER -> MaxOf({100 * s, 400 * s - (r - 10 * s) * 30})

\* Four meaningful activities of 450 s that alternate in type: 3 switches
\* over 30 meaningful minutes.
ThreeSwitches == <<FlowActivity(1, 0, <<"vscode", 45>>, 450),
                   FlowActivity(2, 450, <<"youtube", -30>>, 450),
                   FlowActivity(3, 900, <<"vscode", 45>>, 450),
                   FlowActivity(4, 1350, <<"youtube", -30>>, 450)>>

\* C16: for a session with at least two meaningful activities,
\* analyze_session_flow_quality (of either analyzer) returns the number of
\* type switches between consecutive meaningful activities, the rate
\* switches_per_hour = switches / meaningful_minutes * 60 and the band and
\* flow_score of that rate (<= 2 excellent, <= 5 good, <= 10 moderate, else
\* fragmented); 3 switches over 30 meaningful minutes give rate 6, "moderate"
\* and flow_score 64.0.
C16_FlowQualityBands ==
    /\ ApplyFlow("FlowAwareAnalyzer.analyze_session_flow_quality", ThreeSwitches, "ok") =
           Return([flow_quality |-> "moderate", switches |-> 3, switches_per_hour |-> 60,
                   flow_score |-> 640, noise_activities |-> 0])
    /\ (/\ flow.function \in FlowQualityFunctions
        /\ Len(QualityMeaningful(flow.function, flow.activities)) >= 2
        /\ (flow.function = "FlowAnalyzer.analyze_session_flow_quality" =>
               FlowAnalyzer_calculate_session_type_with_dominance(flow.activities).raised
                   = "none")) =>
          LET meaningful == QualityMeaningful(flow.function, flow.activities)
              switches == SwitchesBetween(meaningful, flow.oracle)
              seconds == TimeOf(meaningful)
          IN  /\ flow.result.raised = "none"
              /\ flow.result.value.switches = switches
              /\ flow.result.value.switches_per_hour = round(36000 * switches, seconds)
              /\ flow.result.value.flow_quality = BandOfRate(switches, seconds)
              /\ flow.result.value.flow_score =
                     round(ScoreOfRate(switches, seconds), seconds)


\* C17: when the external classifier fails, classify_activity_type of both
\* ActivityClassifier and FlowAwareAnalyzer raises nothing and returns the
\* keyword category of the activity (one of productive / unproductive /
\* neutral, neutral when no keyword matches).
C17_ClassifierFailureFallsBack ==
    (flow.function \in ClassifierFunctions /\ flow.oracle = "fails") =>
        /\ flow.result.raised = "none"
        /\ flow.result.value \in {"productive", "unproductive", "neutral"}
        /\ flow.result.value = KeywordCategory(flow.activities[flow.index].details)

\* C18: classify_activity_type (of both classifiers) consults the oracle
\* only for an activity without a productivity score; an activity that has
\* one is typed from the score bands, with no oracle call and with its
\* stored score left as it was.
C18_OracleOnlyWithoutScore ==
    flow.function \in ClassifierFunctions =>
        LET activity == flow.activities[flow.index]
        IN  /\ flow.result.oracle_called <=> activity.productivity_score = None
            /\ activity.productivity_score # None =>
                  /\ flow.result.raised = "none"
                  /\ flow.result.value = ScoreCategory(activity.productivity_score)
                  /\ flow.result.activity.productivity_score = activity.productivity_score

\* The members of persisted session k, as rows of the table logs.
MemberRows(origin, logs, k) ==
    SelectSeq(logs, LAMBDA a : a.id \in Range(Ids(origin[k].members)))

\* Session k carries the time-weighted average of the scores of its members
\* (of those that have one).
MemberAverageStored(sessions, origin, logs, k) ==
    LET scored == SelectSeq(MemberRows(origin, logs, k),
                            LAMBDA a : a.productivity_score # None)
        total_time == SumSeq(Durs(scored))
    IN  total_time > 0 =>
            sessions[k].productivity_score = round(SumSeq(WeightedOr0(scored)), total_time)

\* C19: when update_activity_scores has changed the score of an activity,
\* every persisted session the activity is a member of carries afterwards the
\* time-weighted average of the scores of exactly its members, also a
\* session that started on an earlier calendar day than the activity.
C19_MemberSessionsRescored ==
    [][(rescored = None /\ rescored' # None) =>
          \A k \in 1 .. Len(activity_sessions') :
              rescored' \in Range(Ids(session_origin'[k].members)) =>
                  MemberAverageStored(activity_sessions', session_origin',
                                      activity_logs', k)]_vars

\* C20: with a chat collaborator that answers non-empty text,
\* generate_transition_commentary returns a non-empty commentary whenever the
\* new session has activities (also without a previous session: no meta, no
\* activities), returns no text when neither session has activities (also
\* for two sessions that carry metadata but no activities), and never raises.
C20_CommentaryWhenNewActivities ==
    commentary.returned =>
        /\ commentary.result.raised = "none"
        /\ commentary.new_activities # <<>> => commentary.result.value # ""
        /\ (commentary.prev_activities = <<>> /\ commentary.new_activities = <<>>) =>
               commentary.result.value = ""

\* The threshold T_noise of a noise filter.
NoiseThresholdOf(f) ==
    IF f = "FlowAwareAnalyzer.filter_noise_activities" THEN 120 ELSE 900

\* C21: filter_noise_activities (of either analyzer) splits any activity list
\* into meaningful (duration_sec >= threshold) and noise (duration_sec <
\* threshold): every input activity is in exactly one of the two lists, each
\* list keeps the relative order of the input, and the input list is left
\* unchanged; is_noise_activity is the same test against the grouper's
\* threshold.
C21_NoiseFilterPartitions ==
    /\ \A a \in Range(flow.activities) : is_noise_activity(a) <=> a.duration_sec < 60
    /\ flow.function \in NoiseFilters =>
          LET T == NoiseThresholdOf(flow.function)
              out == flow.result.value
              Pos(list, a) == CHOOSE i \in 1 .. Len(list) : list[i] = a
              KeepsOrder(list) ==
                  \A i, j \in 1 .. Len(list) :
                      i < j => Pos(flow.activities, list[i]) < Pos(flow.activities, list[j])
          IN  /\ flow.result.raised = "none"
              /\ out.activities = flow.activities
              /\ \A a \in Range(out.meaningful) : a.duration_sec >= T
              /\ \A a \in Range(out.noise) : a.duration_sec < T
              /\ Len(out.meaningful) + Len(out.noise) = Len(flow.activities)
              /\ \A a \in Range(flow.activities) :
                    Count(a, out.meaningful) + Count(a, out.noise) = 1
              /\ KeepsOrder(out.meaningful)
              /\ KeepsOrder(out.noise)

\* A list at its full length whose activities alternate between the two
\* lists, one of them exactly at the threshold.
C21_Witness ==
    /\ flow.function = "FlowAnalyzer.filter_noise_activities"
    /\ Len(flow.activities) = MaxFlowActs
    /\ Len(flow.result.value.meaningful) >= 1
    /\ Len(flow.result.value.noise) >= 2
    /\ flow.activities[1].duration_sec < 900
    /\ flow.activities[2].duration_sec = 900
    /\ flow.activities[3].duration_sec < 900

\* C22: should_create_session (of the grouper and of SessionDecisionEngine)
\* returns true exactly when the context is productive, the dwell is >= 180 s
\* and the new type is unproductive, or the context is unproductive, the
\* dwell is >= 120 s and the new type is productive, or the dwell is >= 300 s;
\* it returns false in every other case and changes no state.
C22_ShouldCreateSession ==
    call.function \in DecisionFunctions =>
        LET a == call.args
        IN  /\ call.result.raised = "none"
            /\ call.result.value.returned <=>
                  \/ (a.current_context = "productive" /\ a.time_in_context >= 180
                         /\ a.new_activity_type = "unproductive")
                  \/ (a.current_context = "unproductive" /\ a.time_in_context >= 120
                         /\ a.new_activity_type = "productive")
                  \/ a.time_in_context >= 300
            /\ call.result.value.self =
                   [RealTimeSessionGrouper__init__ EXCEPT !.current_context = a.current_context]

\* A call that returns true on the third ground alone: a neutral context
\* left after exactly 300 s.
C22_Witness ==
    /\ call.function = "RealTimeSessionGrouper.should_create_session"
    /\ call.args.current_context = "neutral"
    /\ call.args.time_in_context = 300
    /\ call.result.value.returned

\* C23: wherever a productivity score is turned into a type (classify_type of
\* the batch path, the score branch of classify_activity_type of both
\* classifiers), a score >= +20 gives productive, a score <= -20 gives
\* unproductive, and any other score or a missing score gives neutral.
C23_ScoreBands ==
    (/\ call.function \in TypingFunctions
     /\ call.function \in ClassifierFunctions => call.args.productivity_score # None) =>
        LET score == call.args.productivity_score
        IN  /\ call.result.raised = "none"
            /\ call.result.value =
                  IF score = None THEN "neutral"
                  ELSE IF score >= 20 THEN "productive"
                  ELSE IF score =< -20 THEN "unproductive"
                  ELSE "neutral"

\* C24: when SessionState closes the open session because break_counter has
\* reached HARD_BREAK_MIN, the persisted session's end_time is the end time of
\* the triggering activity (its timestamp_start plus its duration_sec), which
\* is the last member of the session.
C24_CloseAtEndOfTriggeringActivity ==
    \A i \in 1 .. Len(activity_sessions) :
        session_origin[i].by = "SessionState" =>
            LET members == session_origin[i].members
                triggering == members[Len(members)]
            IN  activity_sessions[i].end_time =
                    triggering.timestamp_start + triggering.duration_sec

\* C25: when SessionState opens a session after an earlier session has been
\* closed, prev_session_meta and prev_activities hold a snapshot of that
\* just-closed session (its start time, total duration and members); they are
\* None / empty only when no session was closed before; and the new member
\* list holds exactly the triggering activity.
C25_OpenSnapshotsClosedSession ==
    [][(state.current_session = NoSession /\ state'.current_session # NoSession) =>
          /\ Len(state'.current_session.activities) = 1
          /\ state'.current_session.activities[1].id = feed'.n
          /\ IF activity_sessions' = <<>>
             THEN state'.prev_session_meta = NoMeta /\ state'.prev_activities = <<>>
             ELSE LET closed == Len(activity_sessions')
                  IN  /\ state'.prev_session_meta # NoMeta
                      /\ state'.prev_session_meta.start_time =
                             activity_sessions'[closed].start_time
                      /\ state'.prev_session_meta.duration =
                             activity_sessions'[closed].total_duration_sec
                      /\ state'.prev_activities = session_origin'[closed].members]_vars

\* C26: an activity shorter than the noise threshold that is fed to
\* SessionState.add_activity leaves ema_score, score_buffer, break_counter,
\* work_counter and the open session's member list unchanged, and neither opens
\* nor closes a session.
C26_NoiseLeavesStateUnchanged ==
    [][(feed'.n = feed.n + 1 /\ feed.duration_sec < noise_threshold) =>
          /\ state'.ema_score = state.ema_score
          /\ state'.score_buffer = state.score_buffer
          /\ state'.break_counter = state.break_counter
          /\ state'.work_counter = state.work_counter
          /\ state'.current_session = state.current_session
          /\ activity_sessions' = activity_sessions]_vars

\* C27: whenever SessionState closes a session, the same step resets the
\* ephemeral state to that of a fresh machine: current_session is empty,
\* ema_score is unset, both counters are 0 and score_buffer is empty.
C27_CloseResetsEphemeralState ==
    [][Len(activity_sessions') > Len(activity_sessions) =>
          /\ state'.current_session = SessionState__init__.current_session
          /\ state'.ema_score = SessionState__init__.ema_score
          /\ state'.break_counter = SessionState__init__.break_counter
          /\ state'.work_counter = SessionState__init__.work_counter
          /\ state'.score_buffer = SessionState__init__.score_buffer
          /\ state'.current_session = NoSession
          /\ state'.ema_score = None
          /\ state'.break_counter = 0
          /\ state'.work_counter = 0
          /\ state'.score_buffer = <<>>]_vars

C27_Witness ==
    /\ Len(activity_sessions) = 1
    /\ state.current_session = NoSession
    /\ state.ema_score = None
    /\ feed.n > 0

\* max(counter - 1, 0)
C28_Decayed(counter) == IF counter - 1 > 0 THEN counter - 1 ELSE 0

\* C28: every processed sample applies exactly one hysteresis update, decided
\* by the updated ema_score and the thresholds of the updated buffer: below
\* the break threshold break_counter grows by 1 and work_counter becomes 0;
\* above the work threshold work_counter grows by 1 and break_counter becomes
\* 0; otherwise both counters drop by 1 but not below 0.  (A step that closes
\* the session then resets both.)  Both counters are never negative.
C28_OneHysteresisUpdate ==
    [][feed'.n = feed.n + 1 =>
          /\ state.break_counter >= 0 /\ state.work_counter >= 0
          /\ state'.break_counter >= 0 /\ state'.work_counter >= 0
          /\ Len(activity_sessions') = Len(activity_sessions) =>
                LET thresholds == _compute_dynamic_thresholds(state'.score_buffer)
                    work_threshold == thresholds[1]
                    break_threshold == thresholds[2]
                IN  IF state'.ema_score < break_threshold
                    THEN /\ state'.break_counter = state.break_counter + 1
                         /\ state'.work_counter = 0
                    ELSE IF state'.ema_score > work_threshold
                    THEN /\ state'.work_counter = state.work_counter + 1
                         /\ state'.break_counter = 0
                    ELSE /\ state'.break_counter = C28_Decayed(state.break_counter)
                         /\ state'.work_counter = C28_Decayed(state.work_counter)]_vars

C28_Witness ==
    /\ state.current_session # NoSession
    /\ state.break_counter >= 2
    /\ state.work_counter = 0
    /\ Len(state.score_buffer) >= 10

\* The first activity of the group that holds the k-th activity of the result.
GroupFirstOf(ss, k) == ss[GroupIndexOf(ss, k)][1]

\* C29: within the gap threshold, an activity whose type differs from the
\* previous one's, whose predecessor is short (duration_sec <=
\* micro_break_threshold_sec) and whose own type is that of the open buffer's
\* first activity, is appended to the open buffer instead of starting a new
\* group, whatever its own duration.
C29_ShortPredecessorAbsorbed ==
    batch.returned =>
        LET flat == Flatten(batch.sessions)
        IN  \A k \in 1 .. Len(flat) - 1 :
              (/\ flat[k + 1].timestamp_start - end_time(flat[k])
                     =< batch.gap_threshold_sec
               /\ classify_type(flat[k].productivity_score)
                     # classify_type(flat[k + 1].productivity_score)
               /\ flat[k].duration_sec =< batch.micro_break_threshold_sec
               /\ classify_type(flat[k + 1].productivity_score)
                     = classify_type(GroupFirstOf(batch.sessions, k).productivity_score))
                  => GroupIndexOf(batch.sessions, k + 1) = GroupIndexOf(batch.sessions, k)

\* A call that kept a long activity in the buffer after a short blip of
\* another type: only the second absorption test applies to it.
C29_Witness ==
    /\ batch.returned
    /\ Len(batch.sessions) = 1
    /\ LET flat == Flatten(batch.sessions)
       IN  /\ Len(flat) = 3
           /\ flat[3].timestamp_start - end_time(flat[2]) =< batch.gap_threshold_sec
           /\ classify_type(flat[2].productivity_score)
                 # classify_type(flat[3].productivity_score)
           /\ flat[2].duration_sec =< batch.micro_break_threshold_sec
           /\ flat[3].duration_sec > batch.micro_break_threshold_sec
           /\ classify_type(flat[3].productivity_score)
                 = classify_type(flat[1].productivity_score)

\* Neither absorption test of batch_sessionize applies to the k+1-th activity
\* of the result, whose predecessor is the k-th.
NoBlipAbsorption(ss, flat, k, micro_break_threshold_sec) ==
    LET prev_type == classify_type(flat[k].productivity_score)
        curr_type == classify_type(flat[k + 1].productivity_score)
        first_type == classify_type(GroupFirstOf(ss, k).productivity_score)
    IN  /\ ~(flat[k + 1].duration_sec =< micro_break_threshold_sec /\ prev_type = first_type)
        /\ ~(flat[k].duration_sec =< micro_break_threshold_sec /\ curr_type = first_type)

\* C30: for two activities consecutive in start order whose gap does not
\* exceed gap_threshold_sec: if their types match the later one joins the open
\* buffer; if their types differ and neither absorption test applies the
\* buffer is closed and the later one starts a new group; in no other case
\* within the gap threshold is the buffer closed.
C30_SplitOnTypeChangeOnly ==
    batch.returned =>
        LET flat == Flatten(batch.sessions)
        IN  \A k \in 1 .. Len(flat) - 1 :
              flat[k + 1].timestamp_start - end_time(flat[k]) =< batch.gap_threshold_sec =>
                LET same_type == classify_type(flat[k].productivity_score)
                                   = classify_type(flat[k + 1].productivity_score)
                    same_group == GroupIndexOf(batch.sessions, k + 1)
                                    = GroupIndexOf(batch.sessions, k)
                    starts_group == GroupFirstOf(batch.sessions, k + 1) = flat[k + 1]
                    no_blip == NoBlipAbsorption(batch.sessions, flat, k,
                                                batch.micro_break_threshold_sec)
                IN  /\ same_type => same_group
                    /\ (~same_type /\ no_blip) => (~same_group /\ starts_group)
                    /\ ~same_group => (~same_type /\ no_blip)

\* A call whose second activity joined the first on its matching type and
\* whose third, within the gap threshold, closed the buffer on a type change.
C30_Witness ==
    /\ batch.returned
    /\ Len(batch.sessions) = 2
    /\ LET flat == Flatten(batch.sessions)
       IN  /\ Len(flat) = 3
           /\ Len(batch.sessions[1]) = 2
           /\ flat[2].timestamp_start - end_time(flat[1]) =< batch.gap_threshold_sec
           /\ flat[3].timestamp_start - end_time(flat[2]) =< batch.gap_threshold_sec
           /\ classify_type(flat[1].productivity_score)
                 = classify_type(flat[2].productivity_score)
           /\ classify_type(flat[2].productivity_score)
                 # classify_type(flat[3].productivity_score)

\* The pending activities of the given type (or of another type), in queue order.
PendingOfType(pending, type, same) ==
    LET Keep(a) == (classify_activity_type(a) = type) = same
    IN  SelectSeq(pending, Keep)

WithoutSession(logs) ==
    LET NoSessionId(a) == a.session_id = None
    IN  sorted(SelectSeq(logs, NoSessionId))

\* The indices at which a span of the list starts: the first activity, and
\* every activity that starts more than 30 minutes after the END of the one
\* before it.
SpanStarts(uns) ==
    {i \in 1 .. Len(uns) :
        i = 1 \/ uns[i].timestamp_start - end_time(uns[i - 1]) > RANGE_GAP_SEC}

\* The first and last index of the k-th span.
SpanFirst(uns, k) ==
    CHOOSE i \in SpanStarts(uns) : Cardinality({j \in SpanStarts(uns) : j =< i}) = k

SpanLast(uns, k) ==
    IF k = Cardinality(SpanStarts(uns)) THEN Len(uns) ELSE SpanFirst(uns, k + 1) - 1

\* C32: find_smart_sessionization_ranges splits the time-ordered activities
\* without a session_id into spans exactly where the gap from the end of one
\* activity to the start of the next exceeds 30 minutes, and returns one range
\* per span, in chronological order; with no such activity it returns the
\* empty list.
C32_OneRangePerSpan ==
    LET uns == WithoutSession(activity_logs)
        ranges == find_smart_sessionization_ranges(activity_logs, activity_sessions)
    IN  /\ uns = <<>> => ranges = <<>>
        /\ uns # <<>> =>
              /\ Len(ranges) = Cardinality(SpanStarts(uns))
              /\ \A k \in 1 .. Len(ranges) :
                    ranges[k] = calculate_processing_bounds(
                                    activity_sessions,
                                    uns[SpanFirst(uns, k)].timestamp_start,
                                    end_time(uns[SpanLast(uns, k)]))

\* The end_time of the existing sessions that end at or before t and within 1
\* day of it, and the start_time of those that start at or after t and within
\* 1 day of it.
SessionEndsBefore(sessions, t) ==
    {sessions[j].end_time : j \in {i \in 1 .. Len(sessions) :
        sessions[i].end_time =< t /\ t - sessions[i].end_time =< one_day}}

SessionStartsAfter(sessions, t) ==
    {sessions[j].start_time : j \in {i \in 1 .. Len(sessions) :
        sessions[i].start_time >= t /\ sessions[i].start_time - t =< one_day}}

\* C33: the processing range of a span starts at the latest end_time of an
\* existing session that ends at or before the span's start and within 1 day
\* of it, or 2 hours before the span's start when there is none; it ends at
\* the earliest start_time of an existing session that starts at or after the
\* span's end and within 1 day of it, or 2 hours after the span's end when
\* there is none.
C33_ProcessingBounds ==
    call.function = "calculate_processing_bounds" =>
        LET span_start == call.args.gap[1]
            span_end == call.args.gap[2]
            before == SessionEndsBefore(call.args.sessions, span_start)
            after == SessionStartsAfter(call.args.sessions, span_end)
            range == call.result.value
        IN  /\ range[1] = IF before # {}
                          THEN CHOOSE e \in before : \A f \in before : f =< e
                          ELSE span_start - 2 * 3600
            /\ range[2] = IF after # {}
                          THEN CHOOSE e \in after : \A f \in after : e =< f
                          ELSE span_end + 2 * 3600

\* A call with two sessions before the span, one of them more than a day
\* before it, and no session after it within a day: the range starts at the
\* end of the nearer session and ends 2 hours after the span.
C33_Witness ==
    /\ call.function = "calculate_processing_bounds"
    /\ Len(call.args.sessions) = 2
    /\ Cardinality(SessionEndsBefore(call.args.sessions, call.args.gap[1])) = 1
    /\ \E i \in 1 .. 2 : call.args.sessions[i].end_time < call.args.gap[1] - one_day
    /\ call.result.value[2] = call.args.gap[2] + fallback_buffer


\* The batch scorer and the two real-time scorers.
EquivalentScorers ==
    {"calculate_weighted_score", "calculate_session_score",
     "calculate_session_productivity_score"}

\* C34: calculate_weighted_score, RealTimeSessionGrouper.calculate_session_score
\* and PatternRecognizer.calculate_session_productivity_score return the same
\* value for every activity list, unscored members included: with a positive
\* total duration, round(sum(score * duration) / sum(duration)) over all
\* members, an unscored member counting with score 0 and its full duration.
C34_ScorersAgree ==
    scoring.function \in EquivalentScorers =>
        /\ \A f \in EquivalentScorers : ApplyScoring(f, scoring.session) = scoring.result
        /\ SumSeq(Durs(scoring.session)) > 0 =>
              scoring.result = Return(round(SumSeq(WeightedOr0(scoring.session)),
                                            SumSeq(Durs(scoring.session))))

\* C35: in every group returned by batch_sessionize, each member whose type
\* differs from the type of the group's first member has duration_sec <=
\* micro_break_threshold_sec: a long activity of another type is never
\* absorbed, it starts a new group.
C35_OnlyShortBlipsAbsorbed ==
    batch.returned =>
        \A g \in 1 .. Len(batch.sessions) :
            \A i \in 1 .. Len(batch.sessions[g]) :
                classify_type(batch.sessions[g][i].productivity_score)
                      # classify_type(batch.sessions[g][1].productivity_score)
                   => batch.sessions[g][i].duration_sec =< batch.micro_break_threshold_sec

\* Every ordering of the list s.
Orderings(s) ==
    {[i \in 1 .. Len(s) |-> s[p[i]]] :
        p \in {q \in [1 .. Len(s) -> 1 .. Len(s)] :
                 \A i, j \in 1 .. Len(s) : q[i] = q[j] => i = j}}

\* The groups of a result as sets of members, order left aside.
GroupSets(ss) == {Range(ss[g]) : g \in 1 .. Len(ss)}

\* C36: the result of batch_sessionize does not depend on the order of its
\* input list: every permutation of the same activities, activities sharing a
\* start_time included, gives the same groups with the same members.
C36_OrderIndependent ==
    batch.returned =>
        \A permuted \in Orderings(batch.activities) :
            GroupSets(batch_sessionize(permuted, batch.gap_threshold_sec,
                                       batch.micro_break_threshold_sec))
                = GroupSets(batch.sessions)

\* C37: in every reachable state of SessionState at most one of break_counter
\* and work_counter is greater than 0.
C37_OneCounterPositive ==
    ~(state.break_counter > 0 /\ state.work_counter > 0)

\* An open session (work_counter had reached HARD_WORK_MIN) whose first sample
\* below the break threshold has just been counted.
C37_Witness ==
    /\ state.current_session # NoSession
    /\ state.break_counter = 1
    /\ state.work_counter = 0

\* C38: every session persisted by RealTimeSessionGrouper has start_time <=
\* end_time, and every member activity starts within [start_time, end_time] of
\* its session, sessions started with folded-in pending activities included.
C38_GrouperSessionSpansMembers ==
    \A i \in 1 .. Len(session_origin) :
        session_origin[i].by = "RealTimeSessionGrouper" =>
            /\ activity_sessions[i].start_time =< activity_sessions[i].end_time
            /\ \A k \in 1 .. Len(session_origin[i].members) :
                  /\ activity_sessions[i].start_time
                        =< session_origin[i].members[k].timestamp_start
                  /\ session_origin[i].members[k].timestamp_start
                        =< activity_sessions[i].end_time

\* The member lists of SessionState in the order the sessions were opened: the
\* sessions persisted, then the open one if there is one.
SessionStateMembers ==
    [i \in 1 .. Len(session_origin) |-> session_origin[i].members]
        \o (IF state.current_session # NoSession
            THEN <<state.current_session.activities>> ELSE <<>>)

\* C39: in SessionState an activity processed while no session is open is a
\* member of a session only if it triggers the opening: each member list
\* starts with the activity that opened the session and continues with the
\* activities that arrived while it was open, one after the other, so the
\* activities seen while idle are in no list and no activity appears twice.
C39_IdleActivitiesNeverMembers ==
    /\ Len(SessionStateMembers) = Len(feed.opened_at)
    /\ \A k \in 1 .. Len(SessionStateMembers) :
          LET members == SessionStateMembers[k]
          IN  /\ \A i \in 1 .. Len(members) : members[i].id = feed.opened_at[k] + i - 1
              /\ \A i, j \in 1 .. Len(members) : members[i].id = members[j].id => i = j
              /\ k > 1 => LET earlier == SessionStateMembers[k - 1]
                          IN  earlier[Len(earlier)].id < members[1].id

\* A second session is open, after samples that were processed while no
\* session was open: those that followed the close of the first session.
C39_Witness ==
    /\ Len(session_origin) = 1
    /\ state.current_session # NoSession
    /\ Len(state.current_session.activities) >= 2
    /\ LET closed == session_origin[1].members
       IN  closed[Len(closed)].id + 2 < state.current_session.activities[1].id

\* The spans find_smart_sessionization_ranges works on: it cuts its list where
\* two consecutive starts lie more than 30 minutes apart.
RangeSpanStarts(uns) ==
    {i \in 1 .. Len(uns) :
        i = 1 \/ uns[i].timestamp_start - uns[i - 1].timestamp_start > RANGE_GAP_SEC}

RangeSpanFirst(uns, k) ==
    CHOOSE i \in RangeSpanStarts(uns) :
        Cardinality({j \in RangeSpanStarts(uns) : j =< i}) = k

RangeSpanLast(uns, k) ==
    IF k = Cardinality(RangeSpanStarts(uns)) THEN Len(uns)
    ELSE RangeSpanFirst(uns, k + 1) - 1

\* C40: every range (process_start, process_end) returned by
\* find_smart_sessionization_ranges contains its span: process_start <= the
\* start of the span's first activity and process_end >= the end time of the
\* span's last activity; so every unsessionized activity of positive duration
\* starts inside at least one returned range.
C40_RangeContainsSpan ==
    LET uns == unsessionized(activity_logs)
        ranges == find_smart_sessionization_ranges(activity_logs, activity_sessions)
    IN  /\ Len(ranges) = IF uns = <<>> THEN 0 ELSE Cardinality(RangeSpanStarts(uns))
        /\ \A k \in 1 .. Len(ranges) :
              /\ ranges[k][1] =< uns[RangeSpanFirst(uns, k)].timestamp_start
              /\ ranges[k][2] >= end_time(uns[RangeSpanLast(uns, k)])
        /\ \A i \in 1 .. Len(uns) :
              \E k \in 1 .. Len(ranges) :
                  /\ ranges[k][1] =< uns[i].timestamp_start
                  /\ uns[i].timestamp_start =< ranges[k][2]

\* A store with two spans, the range of the later one starting at the end of
\* an existing session rather than 2 hours before the span.
C40_Witness ==
    LET uns == unsessionized(activity_logs)
        ranges == find_smart_sessionization_ranges(activity_logs, activity_sessions)
    IN  /\ Len(ranges) = 2
        /\ ranges[2][1] > uns[RangeSpanFirst(uns, 2)].timestamp_start - fallback_buffer
        /\ ranges[2][1] > uns[1].timestamp_start
====
